---- MODULE Spec2Model ----
(***************************************************************************)
(* Model of the AI-Lawyer preprocessing pipeline: the document registry    *)
(* (data/metadata/documents_metadata.json), the artifact files of each     *)
(* stage, the embedding log (data/embeddings/embeddings.jsonl) and the     *)
(* stage scripts that read and write them.                                 *)
(*                                                                         *)
(* Files are keyed by the relative name of the raw file: the text, cleaned *)
(* and chunk artifacts of raw file r live at data/text/<dir>/<r>.txt,      *)
(* data/cleaned/<dir>/<r>.txt and data/chunks/<dir>/<r>.json, so a path    *)
(* field of a record holds the key r, or NoPath for None / '' / 'null'.    *)
(* The registry's last_updated timestamp (wall-clock text) is not part of  *)
(* the model.                                                              *)
(***************************************************************************)
EXTENDS Integers, Sequences, FiniteSets, TLC

\* ------------------------------------------------------------------ bounds
MaxChunks == 2      \* chunks in one chunk file
MaxLog == 4         \* lines of the embedding log
MaxUploadLog == 3   \* lines of the embedding log when the uploads begin
MaxFaults == 1      \* process kills and outside file removals in one behaviour

NoPath == 0         \* None / '' / 'null' in a path field
Absent == 0 - 1     \* a counter key that is not in the registry

Sources == {"pakistan-code", "kp-code", "balochistan-code", "supremecourt"}
Keys == {1, 2}      \* raw-file names, source urls and titles of the fixture

VARIABLES
    registry,     \* parsed content of documents_metadata.json
    regFile,      \* "ok" | "truncated": state of documents_metadata.json on disk
    raw,          \* raw[r]: what is at data/raw/<dir>/<r>.pdf
    rawDir,       \* rawDir[r]: the source directory holding raw file r
    textFile,     \* textFile[r]: "absent" | "partial" | "full"
    cleanedFile,  \* cleanedFile[r]: "absent" | "partial" | "full"
    chunkFile,    \* chunkFile[r]: [kind, chunks]
    log,          \* lines of embeddings.jsonl, in file order
    logOpen,      \* TRUE when the last line of the log has no newline (cut short)
    run,          \* run[p]: the stage script process p is executing
    faults,       \* process kills and outside file removals so far
    prev,         \* the stage whose run ended last with nothing changed since,
                  \* "none" when there is none, "off" when it is not recorded
    remote,       \* the Qdrant collection and the MongoDB collection
    crashed       \* the source_urls of the documents add_embeddings was
                  \* embedding when it was killed

vars == <<registry, regFile, raw, rawDir, textFile, cleanedFile, chunkFile,
          log, logOpen, run, faults, prev, remote, crashed>>

files == <<raw, rawDir, textFile, cleanedFile, chunkFile>>

\* The processes that run the scripts: one operator runs one script at a
\* time, except where two runs of a script are started side by side.
OneProc == {"p1"}

TwoProcs == {"p1", "p2"}

Procs == DOMAIN run

\* ---------------------------------------------------------------- helpers
NoChunkFile == [kind |-> "absent", chunks |-> <<>>]

Indices(s) == [i \in 1..Len(s) |-> i]

EmptyRegistry == [docs |-> <<>>, total_documents |-> 0, total_cleaned |-> 0,
                  total_chunked |-> Absent]

\* run[p] of a process that executes nothing. A running process holds: stage
\* (the script), work / done (files_to_process or files_to_clean and the
\* extracted_documents or cleaned_documents list), selected (the positions in
\* the registry of the records in files_to_process or files_to_clean when the
\* run started), meta (the registry as
\* add_embeddings loaded it), idx / chunk (its position in the document and
\* chunk loops), id_counter, startLen / startOk (the log as it was when
\* the run read the last id), and appended (the positions of the documents
\* append_jsonl was called for in this run).
Idle == [stage |-> "idle", work |-> <<>>, done |-> <<>>, selected |-> {},
         meta |-> EmptyRegistry, idx |-> 0, chunk |-> 0, id_counter |-> 0,
         startLen |-> 0, startOk |-> FALSE, appended |-> {}]

IsIdle(p) == run[p].stage = "idle"

\* A run of stage st ended / something else changed the files: prev is kept
\* up to date unless the behaviour does not record it.
SetPrev(st) == prev' = IF prev = "off" THEN "off" ELSE st

\* A run of stage st starts: it is a second run in a row when prev = st.
KeepPrev(st) == prev' = IF prev \in {"off", st} THEN prev ELSE "none"

\* The last record, in registry order, whose source_url equals url: the
\* match of a loop that has no break; 0 when none.
LastMatch(docs, url) ==
    IF \E i \in 1..Len(docs) : docs[i].source_url = url
    THEN CHOOSE i \in 1..Len(docs) :
            /\ docs[i].source_url = url
            /\ \A j \in (i + 1)..Len(docs) : docs[j].source_url # url
    ELSE 0

\* The first record, in registry order, whose source_url equals url
\* (the inner for ... break loop of _update_metadata); 0 when none.
FirstMatch(docs, url) ==
    IF \E i \in 1..Len(docs) : docs[i].source_url = url
    THEN CHOOSE i \in 1..Len(docs) :
            /\ docs[i].source_url = url
            /\ \A j \in 1..(i - 1) : docs[j].source_url # url
    ELSE 0

\* --------------------------------------------------------------- extraction
\* extract_all, lines 194-212: the extraction gate of one record.
needs_extraction(doc) ==
    IF doc.text_path = NoPath THEN TRUE
    ELSE IF doc.status # "text_extracted" THEN TRUE
    ELSE IF ~doc.text_extracted THEN TRUE
    ELSE textFile[doc.text_path] = "absent"

\* extract_all, lines 187-239: the records whose raw file will be extracted.
files_to_process(docs) ==
    SelectSeq(Indices(docs),
              LAMBDA i : /\ needs_extraction(docs[i])
                         /\ docs[i].raw_path # NoPath
                         /\ raw[docs[i].raw_path] # "missing")

\* process_file / extract_from_pdf: text comes out of a readable PDF only.
process_file(r) == raw[r] = "good"

\* An update that starts the record over: the flags of the later stages are
\* turned off with the new text.
ExtractUpdateOneResets(docs, info) ==
    LET i == FirstMatch(docs, info.source_url) IN
    IF i = 0 THEN docs
    ELSE [docs EXCEPT ![i] =
            [docs[i] EXCEPT !.text_path = info.path,
                            !.status = "text_extracted",
                            !.text_extracted = docs[i].hasPS,
                            !.text_cleaned = FALSE,
                            !.chunked = FALSE,
                            !.embedded = FALSE]]

\* _update_metadata of the extractor, lines 318-336, for one extraction_info.
ExtractUpdateOne(docs, info) ==
    LET i == FirstMatch(docs, info.source_url) IN
    IF i = 0 THEN docs
    ELSE [docs EXCEPT ![i] =
            [docs[i] EXCEPT !.text_path = info.path,
                            !.status = "text_extracted",
                            !.text_extracted = docs[i].hasPS]]

RECURSIVE ExtractUpdateAll(_, _)
ExtractUpdateAll(docs, infos) ==
    IF infos = <<>> THEN docs
    ELSE ExtractUpdateAll(ExtractUpdateOne(docs, Head(infos)), Tail(infos))

\* extract_all, lines 152-239: load the registry and select the work; nothing
\* is selected when the registry cannot be read.
ExtractStart(p) ==
    /\ IsIdle(p)
    /\ LET sel == IF regFile = "ok" THEN files_to_process(registry.docs) ELSE <<>> IN
       run' = [run EXCEPT ![p] =
                 [Idle EXCEPT !.stage = "extract",
                              !.selected = {sel[k] : k \in 1..Len(sel)},
                              !.work = [k \in 1..Len(sel) |->
                                          [path |-> registry.docs[sel[k]].raw_path,
                                           source_url |-> registry.docs[sel[k]].source_url]]]]
    /\ KeepPrev("extract")
    /\ UNCHANGED <<registry, regFile, files, log, logOpen, faults, remote,
                   crashed>>

\* The processing loop with a failed extraction recorded like a successful
\* one: what the loop would do without the test of process_file's result.
ExtractFileRecordsAll(p) ==
    /\ run[p].stage = "extract"
    /\ run[p].work # <<>>
    /\ LET item == Head(run[p].work) IN
       /\ textFile' = IF process_file(item.path)
                      THEN [textFile EXCEPT ![item.path] = "full"]
                      ELSE textFile
       /\ run' = [run EXCEPT ![p].work = Tail(@),
                             ![p].done = Append(@, item)]
    /\ UNCHANGED <<registry, regFile, raw, rawDir, cleanedFile, chunkFile,
                   log, logOpen, prev, faults, remote, crashed>>

\* The processing loop ending the run at the first file that gives no text.
ExtractFileStops(p) ==
    /\ run[p].stage = "extract"
    /\ run[p].work # <<>>
    /\ LET item == Head(run[p].work) IN
       IF process_file(item.path)
       THEN /\ textFile' = [textFile EXCEPT ![item.path] = "full"]
            /\ run' = [run EXCEPT ![p].work = Tail(@),
                                  ![p].done = Append(@, item)]
       ELSE /\ run' = [run EXCEPT ![p].work = <<>>]
            /\ UNCHANGED textFile
    /\ UNCHANGED <<registry, regFile, raw, rawDir, cleanedFile, chunkFile,
                   log, logOpen, prev, faults, remote, crashed>>

\* extract_all, lines 271-297: one iteration of the processing loop.
ExtractFile(p) ==
    /\ run[p].stage = "extract"
    /\ run[p].work # <<>>
    /\ LET item == Head(run[p].work) IN
       IF process_file(item.path)
       THEN /\ textFile' = [textFile EXCEPT ![item.path] = "full"]
            /\ run' = [run EXCEPT ![p].work = Tail(@),
                                  ![p].done = Append(@, item)]
       ELSE /\ run' = [run EXCEPT ![p].work = Tail(@)]
            /\ UNCHANGED textFile
    /\ UNCHANGED <<registry, regFile, raw, rawDir, cleanedFile, chunkFile,
                   log, logOpen, prev, faults, remote, crashed>>

\* The end of extract_all: the early returns of lines 165-176 and 264-266 when
\* nothing was selected, else line 300 and _update_metadata, lines 305-350.
ExtractUpdateMetadata(p) ==
    /\ run[p].stage = "extract"
    /\ run[p].work = <<>>
    /\ IF run[p].done # <<>> /\ regFile = "ok"
       THEN registry' = [registry EXCEPT
                           !.docs = ExtractUpdateAll(@, run[p].done)]
       ELSE UNCHANGED registry
    /\ run' = [run EXCEPT ![p] = Idle]
    /\ SetPrev("extract")
    /\ UNCHANGED <<regFile, files, log, logOpen, faults, remote, crashed>>

\* ----------------------------------------------------------------- cleaning
\* process_all_files of a cleaner, lines "Determine if cleaning is needed":
\* the cleaning gate of one record (the same text in the four cleaners).
\* The cleaning gate without the look at the disk.
needs_cleaning_flags(doc) ==
    IF doc.cleaned_path = NoPath THEN TRUE
    ELSE ~doc.text_cleaned

needs_cleaning(doc) ==
    IF doc.cleaned_path = NoPath THEN TRUE
    ELSE IF ~doc.text_cleaned THEN TRUE
    ELSE cleanedFile[doc.cleaned_path] = "absent"

\* process_all_files of the cleaner of source c: the selection loop.
files_to_clean(docs, c) ==
    SelectSeq(Indices(docs),
              LAMBDA i : /\ docs[i].source_website = c
                         /\ docs[i].text_path # NoPath
                         /\ textFile[docs[i].text_path] # "absent"
                         /\ needs_cleaning(docs[i]))

\* _update_metadata of a cleaner, for one cleaning_info.
CleanUpdateOne(docs, info) ==
    LET i == FirstMatch(docs, info.source_url) IN
    IF i = 0 THEN docs
    ELSE [docs EXCEPT ![i] =
            [docs[i] EXCEPT !.cleaned_path = info.path,
                            !.status = "text_cleaned",
                            !.hasPS = TRUE,
                            !.text_cleaned = TRUE]]

RECURSIVE CleanUpdateAll(_, _)
CleanUpdateAll(docs, infos) ==
    IF infos = <<>> THEN docs
    ELSE CleanUpdateAll(CleanUpdateOne(docs, Head(infos)), Tail(infos))

\* _update_metadata of a cleaner: total_cleaned is counted over all records.
CountCleaned(docs) == Cardinality({i \in 1..Len(docs) : docs[i].text_cleaned})

\* total_cleaned raised by the number of cleaning_infos instead of recounted.
CleanUpdatedIncrement(reg, infos) ==
    [reg EXCEPT !.docs = CleanUpdateAll(reg.docs, infos),
                !.total_cleaned = @ + Len(infos)]

CleanUpdated(reg, infos) ==
    LET docs == CleanUpdateAll(reg.docs, infos) IN
    [reg EXCEPT !.docs = docs, !.total_cleaned = CountCleaned(docs)]

\* process_all_files of the cleaner of source c: load the registry and select
\* the work; nothing is selected when the registry cannot be read.
CleanStart(p, c) ==
    /\ IsIdle(p)
    /\ LET sel == IF regFile = "ok" THEN files_to_clean(registry.docs, c) ELSE <<>> IN
       run' = [run EXCEPT ![p] =
                 [Idle EXCEPT !.stage = c,
                              !.selected = {sel[k] : k \in 1..Len(sel)},
                              !.work = [k \in 1..Len(sel) |->
                                          [path |-> registry.docs[sel[k]].text_path,
                                           source_url |-> registry.docs[sel[k]].source_url]]]]
    /\ KeepPrev(c)
    /\ UNCHANGED <<registry, regFile, files, log, logOpen, faults, remote,
                   crashed>>

\* The processing loop of a cleaner that moves the text file: the cleaned
\* text is written and the text file it was read from is removed.
CleanFileMoves(p) ==
    /\ run[p].stage \in Sources
    /\ run[p].work # <<>>
    /\ LET item == Head(run[p].work) IN
       IF rawDir[item.path] # run[p].stage
       THEN /\ run' = [run EXCEPT ![p] = Idle]
            /\ SetPrev(run[p].stage)
            /\ UNCHANGED <<cleanedFile, textFile>>
       ELSE IF textFile[item.path] = "absent"
       THEN /\ run' = [run EXCEPT ![p].work = Tail(@)]
            /\ UNCHANGED <<cleanedFile, textFile, prev>>
       ELSE /\ cleanedFile' = [cleanedFile EXCEPT ![item.path] = "full"]
            /\ textFile' = [textFile EXCEPT ![item.path] = "absent"]
            /\ run' = [run EXCEPT ![p].work = Tail(@),
                                  ![p].done = Append(@, item)]
            /\ UNCHANGED prev
    /\ UNCHANGED <<registry, regFile, raw, rawDir, chunkFile,
                   log, logOpen, faults, remote, crashed>>

\* One iteration of the cleaner's processing loop: relative_to(TEXT_DIR)
\* raises for a text file outside the cleaner's directory and ends the run
\* (main re-raises or prints); clean_file catches its own errors.
CleanFile(p) ==
    /\ run[p].stage \in Sources
    /\ run[p].work # <<>>
    /\ LET item == Head(run[p].work) IN
       IF rawDir[item.path] # run[p].stage
       THEN /\ run' = [run EXCEPT ![p] = Idle]
            /\ SetPrev(run[p].stage)
            /\ UNCHANGED cleanedFile
       ELSE IF textFile[item.path] = "absent"
       THEN /\ run' = [run EXCEPT ![p].work = Tail(@)]
            /\ UNCHANGED <<cleanedFile, prev>>
       ELSE /\ cleanedFile' = [cleanedFile EXCEPT ![item.path] = "full"]
            /\ run' = [run EXCEPT ![p].work = Tail(@),
                                  ![p].done = Append(@, item)]
            /\ UNCHANGED prev
    /\ UNCHANGED <<registry, regFile, raw, rawDir, textFile, chunkFile,
                   log, logOpen, faults, remote, crashed>>

\* The end of process_all_files: the early return when nothing was selected,
\* else the cleaner's _update_metadata.
CleanUpdateMetadata(p) ==
    /\ run[p].stage \in Sources
    /\ run[p].work = <<>>
    /\ IF run[p].done # <<>> /\ regFile = "ok"
       THEN registry' = CleanUpdated(registry, run[p].done)
       ELSE UNCHANGED registry
    /\ run' = [run EXCEPT ![p] = Idle]
    /\ SetPrev(run[p].stage)
    /\ UNCHANGED <<regFile, files, log, logOpen, faults, remote, crashed>>

\* --------------------------------------------------------------- clean_text
\* What _validate_cleaning reads of a text: len(text), the number of matches of
\* the section pattern \n\s*\d+\.\s+[A-Z], whether one of case_patterns is
\* found and whether one of judgment_keywords occurs. A section header takes
\* five characters and a case title fourteen, so not every combination is a
\* text.
TextLengths == {0, 99, 100, 249, 250, 374, 375, 399, 400, 474, 475, 500}

SectionCounts == {0, 5, 9, 10, 11, 48, 49, 50}

Texts == {t \in [length : TextLengths, sections : SectionCounts,
                 case_title : BOOLEAN, judgment : BOOLEAN] :
             /\ 5 * t.sections <= t.length
             /\ t.case_title => t.length >= 14
             /\ t.judgment => t.length >= 5}

Valid == "valid"

\* LegalTextCleaner._validate_cleaning (Pakistan Code): the reason of the
\* validation_errors entry it appends, Valid when it returns True.
validate_cleaning_pakistan(original, cleaned) ==
    IF original.sections > 0 /\ 10 * cleaned.sections < 9 * original.sections
    THEN "Section count mismatch"
    ELSE IF 2 * cleaned.length < original.length
    THEN "Excessive content reduction"
    ELSE IF cleaned.length < 100
    THEN "Cleaned text too short"
    ELSE Valid

Abs(n) == IF n < 0 THEN 0 - n ELSE n

\* KPCodeCleaner._validate_cleaning.
validate_cleaning_kp(original, cleaned) ==
    IF /\ original.sections > 0
       /\ 20 * Abs(original.sections - cleaned.sections) > original.sections
    THEN "Section count mismatch"
    ELSE IF 4 * cleaned.length < 3 * original.length
    THEN "Excessive content reduction"
    ELSE IF cleaned.length < 100
    THEN "Cleaned text too short"
    ELSE Valid

\* BalochistanCodeCleaner._validate_cleaning.
validate_cleaning_balochistan(original, cleaned) ==
    IF /\ original.sections > 0
       /\ 50 * Abs(original.sections - cleaned.sections) > original.sections
    THEN "Section count mismatch"
    ELSE IF 5 * cleaned.length < 4 * original.length
    THEN "Excessive content reduction"
    ELSE IF cleaned.length < 100
    THEN "Cleaned text too short"
    ELSE Valid

\* SupremeCourtCleaner._validate_cleaning.
validate_cleaning_supremecourt(original, cleaned) ==
    IF /\ original.length > 0
       /\ 20 * (original.length - cleaned.length) > original.length
    THEN "Excessive reduction"
    ELSE IF original.case_title /\ ~cleaned.case_title
    THEN "Case title information lost"
    ELSE IF original.judgment /\ ~cleaned.judgment
    THEN "Judgment/Order section lost"
    ELSE Valid

\* _validate_cleaning of the cleaner of source c.
validate_cleaning(c, original, cleaned) ==
    CASE c = "pakistan-code" -> validate_cleaning_pakistan(original, cleaned)
      [] c = "kp-code" -> validate_cleaning_kp(original, cleaned)
      [] c = "balochistan-code" -> validate_cleaning_balochistan(original, cleaned)
      [] c = "supremecourt" -> validate_cleaning_supremecourt(original, cleaned)

\* clean_text returning the text after the steps whatever the validation says.
clean_text_result_unchecked(c, original, text) == text

\* The end of clean_text: the text after the steps when _validate_cleaning
\* returns True, else original_text.
clean_text_result(c, original, text) ==
    IF validate_cleaning(c, original, text) = Valid THEN text ELSE original

\* self.validation_errors after _validate_cleaning(original, text, filename).
validation_errors_after(errors, c, original, text, filename) ==
    IF validate_cleaning(c, original, text) = Valid THEN errors
    ELSE Append(errors, [file |-> filename,
                         reason |-> validate_cleaning(c, original, text)])

\* A process inside clean_text(text, filename) of the cleaner of source c:
\* original_text, text (the local the steps rewrite), self.validation_errors
\* and what it returned.
InClean(p) == run[p].stage = "clean_text"

\* clean_text up to the validation: the regular-expression steps and strip().
\* They are not interpreted: the text they leave is any text.
CleanTextSteps(p) ==
    /\ InClean(p)
    /\ run[p].at = "steps"
    /\ \E t \in Texts : run' = [run EXCEPT ![p].text = t, ![p].at = "validate"]
    /\ UNCHANGED <<registry, regFile, files, log, logOpen, faults, prev, remote,
                   crashed>>

\* clean_text from the call of _validate_cleaning to its return.
CleanTextValidate(p) ==
    /\ InClean(p)
    /\ run[p].at = "validate"
    /\ run' = [run EXCEPT
                 ![p].validation_errors =
                     validation_errors_after(@, run[p].cleaner, run[p].original_text,
                                             run[p].text, run[p].filename),
                 ![p].returned =
                     clean_text_result(run[p].cleaner, run[p].original_text,
                                       run[p].text),
                 ![p].at = "returned"]
    /\ UNCHANGED <<registry, regFile, files, log, logOpen, faults, prev, remote,
                   crashed>>

\* ------------------------------ _update_metadata of a cleaner, step by step
\* _update_metadata of a cleaner up to the end of json.load: the registry is
\* read again from the file (run[p].idx = 1 from then on).
CleanLoadMetadata(p) ==
    /\ run[p].stage \in Sources
    /\ run[p].work = <<>>
    /\ run[p].done # <<>>
    /\ run[p].idx = 0
    /\ regFile = "ok"
    /\ run' = [run EXCEPT ![p].meta = registry, ![p].idx = 1]
    /\ UNCHANGED <<registry, regFile, files, log, logOpen, prev, faults,
                   remote, crashed>>

\* _update_metadata from there to the end of json.dump: the registry that was
\* read is updated and written over the file.
CleanSaveMetadata(p) ==
    /\ run[p].stage \in Sources
    /\ run[p].idx = 1
    /\ registry' = CleanUpdated(run[p].meta, run[p].done)
    /\ run' = [run EXCEPT ![p] = Idle]
    /\ SetPrev(run[p].stage)
    /\ UNCHANGED <<regFile, files, log, logOpen, faults, remote, crashed>>

\* The end of process_all_files with nothing to record: _update_metadata
\* returns at once.
CleanNothingToUpdate(p) ==
    /\ run[p].stage \in Sources
    /\ run[p].work = <<>>
    /\ run[p].done = <<>>
    /\ run' = [run EXCEPT ![p] = Idle]
    /\ SetPrev(run[p].stage)
    /\ UNCHANGED <<registry, regFile, files, log, logOpen, faults, remote,
                   crashed>>

\* --------------------------------------------- clean_file, with the texts
\* The texts a text file holds and the steps of clean_text leave, in the runs
\* that follow the text through clean_file.
SampleTexts ==
    {t \in Texts : /\ t.length \in {99, 250, 500}
                   /\ t.sections \in {0, 10}
                   /\ ~t.case_title
                   /\ ~t.judgment}

\* clean_file: reduction_percent, to the whole percent.
reduction_percent(original_size, cleaned_size) ==
    IF original_size > 0
    THEN ((original_size - cleaned_size) * 100) \div original_size
    ELSE 0

\* One iteration of the cleaner's processing loop with clean_file followed
\* through: the text read from input_path (any text), the text the steps of
\* clean_text leave (any text), what clean_text returns, the write of it to
\* output_path, and the entry of cleaned_documents with the sizes and the
\* reduction. The entry also keeps the three texts.
CleanFileText(p) ==
    /\ run[p].stage \in Sources
    /\ run[p].work # <<>>
    /\ LET item == Head(run[p].work) IN
       IF rawDir[item.path] # run[p].stage
       THEN /\ run' = [run EXCEPT ![p] = Idle]
            /\ SetPrev(run[p].stage)
            /\ UNCHANGED cleanedFile
       ELSE IF textFile[item.path] = "absent"
       THEN /\ run' = [run EXCEPT ![p].work = Tail(@)]
            /\ UNCHANGED <<cleanedFile, prev>>
       ELSE \E original_text \in SampleTexts, text \in SampleTexts :
               LET cleaned_text == clean_text_result(run[p].stage, original_text, text) IN
               /\ cleanedFile' = [cleanedFile EXCEPT ![item.path] = "full"]
               /\ run' = [run EXCEPT
                            ![p].work = Tail(@),
                            ![p].done = Append(@,
                               [source_url |-> item.source_url,
                                path |-> item.path,
                                original_text |-> original_text,
                                text |-> text,
                                written |-> cleaned_text,
                                original_size |-> original_text.length,
                                cleaned_size |-> cleaned_text.length,
                                reduction_percent |->
                                   reduction_percent(original_text.length,
                                                     cleaned_text.length)])]
               /\ UNCHANGED prev
    /\ UNCHANGED <<registry, regFile, raw, rawDir, textFile, chunkFile,
                   log, logOpen, faults, remote, crashed>>

\* ------------------------------------------------------------------ chunking
\* find_chunk_file: the chunk file of a cleaned path, if it is on disk.
find_chunk_file(cleaned_path) ==
    IF chunkFile[cleaned_path].kind # "absent" THEN cleaned_path ELSE NoPath

\* A validity test that takes every file that is there for a chunk file.
is_valid_chunk_file_exists(path) == chunkFile[path].kind # "absent"

\* is_valid_chunk_file: at least 5 bytes, parses, non-empty 'chunks' list.
is_valid_chunk_file(path) ==
    /\ chunkFile[path].kind = "chunks"
    /\ Len(chunkFile[path].chunks) > 0

ChunkFileValid(doc) ==
    LET chunk_file == find_chunk_file(doc.cleaned_path) IN
    chunk_file # NoPath /\ is_valid_chunk_file(chunk_file)

\* update_chunk_status.main, lines 56-71: the loop body for one record.
ChunkStatusOf(doc) ==
    IF doc.cleaned_path = NoPath THEN doc
    ELSE IF ChunkFileValid(doc)
    THEN [doc EXCEPT !.chunked_path = find_chunk_file(doc.cleaned_path),
                     !.status = "chunked",
                     !.chunked = TRUE]
    ELSE [doc EXCEPT !.chunked = FALSE]

\* update_chunk_status.main, lines 73-80: the keys are copied in order and
\* total_chunked is written right after total_cleaned, so a total_chunked key
\* that is already in the file (it follows total_cleaned) overwrites the new
\* count with the stored one.
NewTotalChunked(reg, total_valid) ==
    IF reg.total_chunked = Absent THEN total_valid ELSE reg.total_chunked

ChunkStatusUpdated(reg) ==
    LET docs == [i \in 1..Len(reg.docs) |-> ChunkStatusOf(reg.docs[i])]
        total_valid == Cardinality({i \in 1..Len(reg.docs) :
                          /\ reg.docs[i].cleaned_path # NoPath
                          /\ ChunkFileValid(reg.docs[i])})
    IN [reg EXCEPT !.docs = docs,
                   !.total_chunked = NewTotalChunked(reg, total_valid)]

\* doc["processing_status"]["chunked"] raises for a record with a cleaned_path
\* and no processing_status; load_json raises for an unreadable registry.
ChunkStatusRaises ==
    \/ regFile # "ok"
    \/ \E i \in 1..Len(registry.docs) :
          registry.docs[i].cleaned_path # NoPath /\ ~registry.docs[i].hasPS

\* update_chunk_status.main: one run.
UpdateChunkStatus ==
    /\ \A p \in Procs : IsIdle(p)
    /\ IF ChunkStatusRaises
       THEN UNCHANGED registry
       ELSE registry' = ChunkStatusUpdated(registry)
    /\ SetPrev("chunk_status")
    /\ UNCHANGED <<regFile, files, log, logOpen, run, faults, remote,
                   crashed>>

\* An empty {} written for every cleaned file, whatever is at its place.
create_empty_jsons_overwrites(cf) ==
    [r \in Keys |->
        IF cleanedFile[r] # "absent"
        THEN [kind |-> "placeholder", chunks |-> <<>>]
        ELSE cf[r]]

\* create_empty_jsons: an empty {} for every cleaned file without a chunk file.
create_empty_jsons(cf) ==
    [r \in Keys |->
        IF cleanedFile[r] # "absent" /\ cf[r].kind = "absent"
        THEN [kind |-> "placeholder", chunks |-> <<>>]
        ELSE cf[r]]

CreateEmptyJsons ==
    /\ \A p \in Procs : IsIdle(p)
    /\ chunkFile' = create_empty_jsons(chunkFile)
    /\ SetPrev("create_empty_jsons")
    /\ UNCHANGED <<registry, regFile, raw, rawDir, textFile, cleanedFile,
                   log, logOpen, run, faults, remote, crashed>>

\* The chunker (not part of this repository) fills the chunk file of a cleaned
\* document once: n chunks, the last one without a 'text' field when ~texts.
ChunkLists == {[k \in 1..n |-> (k < n) \/ t] : n \in 1..MaxChunks, t \in BOOLEAN}

ChunkerWrites ==
    /\ \A p \in Procs : IsIdle(p)
    /\ \E r \in Keys, cs \in ChunkLists :
          /\ cleanedFile[r] = "full"
          /\ chunkFile[r].kind # "chunks"
          /\ chunkFile' = [chunkFile EXCEPT ![r] = [kind |-> "chunks", chunks |-> cs]]
    /\ SetPrev("none")
    /\ UNCHANGED <<registry, regFile, raw, rawDir, textFile, cleanedFile,
                   log, logOpen, run, faults, remote, crashed>>

\* ----------------------------------------------------------------- embedding
\* One line of embeddings.jsonl: a record, or text that json.loads rejects.
Record(id, doc, k) ==
    [ok |-> TRUE, id |-> id, title |-> doc.title, source_url |-> doc.source_url,
     chunk_index |-> k, upload |-> FALSE]

Garbage == [ok |-> FALSE, id |-> 0, title |-> 0, source_url |-> 0,
            chunk_index |-> 0, upload |-> FALSE]

\* The id of the first line instead of the last one.
get_last_id_first(lines) ==
    IF lines = <<>> THEN 0
    ELSE IF lines[1].ok THEN lines[1].id
    ELSE 0

\* get_last_id: 0 for no or an empty file and for an unparsable last line.
get_last_id(lines) ==
    IF lines = <<>> THEN 0
    ELSE IF lines[Len(lines)].ok THEN lines[Len(lines)].id
    ELSE 0

\* embeddings_exist_for: some parsable line carries the title.
embeddings_exist_for(doc_title, lines) ==
    \E i \in 1..Len(lines) : lines[i].ok /\ lines[i].title = doc_title

\* append_jsonl: the text goes to the end of the file, so after a last line
\* that was cut short it becomes part of that line, which stays unparsable.
append_jsonl(lines, open, rec) ==
    IF open THEN lines ELSE Append(lines, rec)

\* The ids of the first n lines are 1..n, each line a record.
Numbered(lines, n) == \A i \in 1..n : lines[i].ok /\ lines[i].id = i

\* add_embeddings.main, lines 65-72.
EmbedStart(p) ==
    /\ IsIdle(p)
    /\ IF regFile # "ok"
       THEN /\ SetPrev("embed")
            /\ UNCHANGED run
       ELSE /\ run' = [run EXCEPT ![p] =
                 [Idle EXCEPT !.stage = "embed",
                              !.meta = registry,
                              !.idx = 1,
                              !.id_counter = get_last_id(log) + 1,
                              !.startLen = Len(log),
                              !.startOk = ~logOpen /\ Numbered(log, Len(log))]]
            /\ KeepPrev("embed")
    /\ UNCHANGED <<registry, regFile, files, log, logOpen, faults, remote,
                   crashed>>

\* The skip logic without the test of the embedded flag and of the log.
skip_document_unchunked(doc, lines) == ~doc.chunked

\* The skip logic trusting the embedded flag alone.
skip_document_flag(doc, lines) == ~doc.chunked \/ doc.embedded

\* add_embeddings.main, line 80: the skip logic for one record.
skip_document(doc, lines) ==
    ~doc.chunked \/ (doc.embedded /\ embeddings_exist_for(doc.title, lines))

\* add_embeddings.main, lines 74-101: the head of the document loop, up to
\* the chunk loop; past the last record the run ends.
EmbedSelect(p) ==
    /\ run[p].stage = "embed"
    /\ run[p].chunk = 0
    /\ IF run[p].idx > Len(run[p].meta.docs)
       THEN /\ run' = [run EXCEPT ![p] = Idle]
            /\ SetPrev("embed")
       ELSE LET doc == run[p].meta.docs[run[p].idx] IN
            /\ IF \/ skip_document(doc, log)
                  \/ doc.chunked_path = NoPath
                  \/ chunkFile[doc.chunked_path].kind \in {"absent", "garbage"}
               THEN run' = [run EXCEPT ![p].idx = @ + 1]
               ELSE run' = [run EXCEPT ![p].chunk = 1]
            /\ UNCHANGED prev
    /\ UNCHANGED <<registry, regFile, files, log, logOpen, faults, remote,
                   crashed>>

CurrentDoc(p) == run[p].meta.docs[run[p].idx]

CurrentChunks(p) == chunkFile[CurrentDoc(p).chunked_path].chunks

\* add_embeddings.main, lines 103-148: one iteration of the chunk loop;
\* chunk["text"] raises for a chunk without text and ends the run.
EmbedAppend(p) ==
    /\ run[p].stage = "embed"
    /\ run[p].chunk > 0
    /\ run[p].chunk <= Len(CurrentChunks(p))
    /\ IF ~CurrentChunks(p)[run[p].chunk]
       THEN /\ run' = [run EXCEPT ![p] = Idle]
            /\ SetPrev("embed")
            /\ UNCHANGED <<log, logOpen>>
       ELSE /\ Len(log) < MaxLog
            /\ log' = append_jsonl(log, logOpen,
                         Record(run[p].id_counter, CurrentDoc(p), run[p].chunk))
            /\ logOpen' = FALSE
            /\ run' = [run EXCEPT ![p].chunk = @ + 1,
                                  ![p].id_counter = @ + 1,
                                  ![p].appended = @ \cup {run[p].idx}]
            /\ UNCHANGED prev
    /\ UNCHANGED <<registry, regFile, files, faults, remote, crashed>>

\* add_embeddings.main, lines 150-153: mark the document in the loaded
\* registry and save the whole of it.
EmbedMarked(meta, i) ==
    [meta EXCEPT !.docs[i] = [meta.docs[i] EXCEPT !.embedded = TRUE,
                                                  !.status = "embedded"]]

EmbedMark(p) ==
    /\ run[p].stage = "embed"
    /\ run[p].chunk > 0
    /\ run[p].chunk > Len(CurrentChunks(p))
    /\ registry' = EmbedMarked(run[p].meta, run[p].idx)
    /\ run' = [run EXCEPT ![p].meta = EmbedMarked(run[p].meta, run[p].idx),
                          ![p].idx = @ + 1,
                          ![p].chunk = 0]
    /\ UNCHANGED <<regFile, files, log, logOpen, prev, faults, remote,
                   crashed>>

\* -------------------------------------------------------- remove_duplicates
\* The last record of each raw_path kept instead of the first.
remove_duplicates_keeps_last(reg) ==
    LET keep == SelectSeq(Indices(reg.docs),
                   LAMBDA i : \A j \in (i + 1)..Len(reg.docs) :
                                 reg.docs[j].raw_path # reg.docs[i].raw_path)
        unique_documents == [k \in 1..Len(keep) |-> reg.docs[keep[k]]]
    IN [reg EXCEPT !.docs = unique_documents,
                   !.total_documents = Len(unique_documents)]

\* remove_duplicates_by_raw_path, lines 14-26.
remove_duplicates(reg) ==
    LET keep == SelectSeq(Indices(reg.docs),
                   LAMBDA i : \A j \in 1..(i - 1) :
                                 reg.docs[j].raw_path # reg.docs[i].raw_path)
        unique_documents == [k \in 1..Len(keep) |-> reg.docs[keep[k]]]
    IN [reg EXCEPT !.docs = unique_documents,
                   !.total_documents = Len(unique_documents)]

RemoveDuplicates ==
    /\ \A p \in Procs : IsIdle(p)
    /\ regFile = "ok"
    /\ registry' = remove_duplicates(registry)
    /\ SetPrev("remove_duplicates")
    /\ UNCHANGED <<regFile, files, log, logOpen, run, faults, remote,
                   crashed>>

\* --------------------------------------------------------- upload_embeddings
\* The two remote stores before the first upload: no Qdrant collection, an
\* empty MongoDB collection.
NoRemote == [collection |-> FALSE, qdrant |-> {}, mongo |-> {}]

\* Reading the records still to be uploaded only.
read_jsonl_unflagged(lines) == SelectSeq(lines, LAMBDA l : l.ok /\ ~l.upload)

\* read_jsonl: the lines that parse, in order; a line that does not parse is
\* passed over.
read_jsonl(lines) == SelectSeq(lines, LAMBDA l : l.ok)

\* The loop passes over a record whose 'upload' is true.
pending_always(rec) == TRUE

pending(rec) == ~rec.upload

\* 'break' in the place of 'continue': the record after the last one.
stop_pass(idx, n) == n + 1

\* 'continue' after a failed Qdrant upsert: the next record of the list.
next_record(idx, n) == idx + 1

InUpload(p) == run[p].stage = "upload"

\* The module's start-up and the first line of upload_embeddings:
\* get_collection answers ("found"), or it raises and recreate_collection
\* makes the collection anew, empty ("recreated"), or that raises as well and
\* the script ends before upload_embeddings is called ("down"). MongoClient
\* connects on first use, and ensure_indexes prints the exception of an
\* unreachable MongoDB, so the pass starts whether MongoDB can be reached
\* (mongo_up) or not. Then the log is read into memory.
UploadStart(p) ==
    /\ \A q \in Procs : IsIdle(q)
    /\ \E outcome \in {"found", "recreated", "down"}, up \in BOOLEAN :
          /\ outcome = "found" => remote.collection
          /\ remote' = IF outcome = "recreated"
                       THEN [remote EXCEPT !.collection = TRUE, !.qdrant = {}]
                       ELSE remote
          /\ run' = IF outcome = "down" THEN run
                    ELSE [run EXCEPT ![p] =
                            [stage |-> "upload", mongo_up |-> up,
                             start |-> read_jsonl(log),
                             records |-> read_jsonl(log), idx |-> 1,
                             tried |-> {}, qok |-> {}, mok |-> {},
                             qcalls |-> 0, mcalls |-> 0]]
    /\ KeepPrev("upload")
    /\ UNCHANGED <<registry, regFile, files, log, logOpen, faults, crashed>>

\* One turn of the loop over the records: a flagged record is passed over;
\* otherwise qdrant.upsert is called and, when it raises, the loop goes to the
\* next record; otherwise update_one is called (it raises every time when
\* MongoDB cannot be reached), an exception of it is printed, and
\* rec["upload"] = True follows.
UploadRecord(p) ==
    /\ InUpload(p)
    /\ run[p].idx <= Len(run[p].records)
    /\ LET k == run[p].idx
           rec == run[p].records[k]
           n == Len(run[p].records) IN
       IF ~pending(rec)
       THEN /\ run' = [run EXCEPT ![p].idx = k + 1]
            /\ UNCHANGED remote
       ELSE \E q \in BOOLEAN, m \in {run[p].mongo_up, FALSE} :
               IF ~q
               THEN /\ run' = [run EXCEPT ![p].idx = next_record(k, n),
                                          ![p].tried = @ \cup {k},
                                          ![p].qcalls = @ + 1]
                    /\ UNCHANGED remote
               ELSE /\ run' = [run EXCEPT ![p].idx = k + 1,
                                          ![p].tried = @ \cup {k},
                                          ![p].qok = @ \cup {k},
                                          ![p].mok = IF m THEN @ \cup {k} ELSE @,
                                          ![p].qcalls = @ + 1,
                                          ![p].mcalls = @ + 1,
                                          ![p].records[k].upload = TRUE]
                    /\ remote' = [remote EXCEPT
                                    !.qdrant = @ \cup {rec.id},
                                    !.mongo = IF m THEN @ \cup {rec.id} ELSE @]
    /\ KeepPrev("upload")
    /\ UNCHANGED <<registry, regFile, files, log, logOpen, faults, crashed>>

\* rewrite_jsonl_with_flag after the loop: the file is opened for writing and
\* every record of the list is written to it.
UploadRewrite(p) ==
    /\ InUpload(p)
    /\ run[p].idx > Len(run[p].records)
    /\ log' = run[p].records
    /\ logOpen' = FALSE
    /\ run' = [run EXCEPT ![p] = Idle]
    /\ SetPrev("upload")
    /\ UNCHANGED <<registry, regFile, files, faults, remote, crashed>>

\* ------------------------------------------------------- process kills
\* crashed after a kill of process p: the document of the chunk loop, when
\* add_embeddings is inside it, is added.
CrashedAfter(p) ==
    IF run[p].stage = "embed" /\ run[p].chunk > 0
    THEN crashed \cup {run[p].meta.docs[run[p].idx].source_url}
    ELSE crashed

\* The process is killed between two steps of its script.
Kill(p) ==
    /\ faults < MaxFaults
    /\ faults' = faults + 1
    /\ UNCHANGED remote
    /\ crashed' = CrashedAfter(p)
    /\ ~IsIdle(p)
    /\ run' = [run EXCEPT ![p] = Idle]
    /\ SetPrev("none")
    /\ UNCHANGED <<registry, regFile, files, log, logOpen>>

\* The process is killed inside save_text or clean_file, after open(path, 'w')
\* and before the text is written out: the artifact is on disk, cut short.
KillInWrite(p) ==
    /\ faults < MaxFaults
    /\ faults' = faults + 1
    /\ UNCHANGED remote
    /\ UNCHANGED crashed
    /\ run[p].stage \in Sources \cup {"extract"}
    /\ run[p].work # <<>>
    /\ LET item == Head(run[p].work) IN
       IF run[p].stage = "extract"
       THEN /\ process_file(item.path)
            /\ textFile' = [textFile EXCEPT ![item.path] = "partial"]
            /\ UNCHANGED cleanedFile
       ELSE /\ rawDir[item.path] = run[p].stage
            /\ textFile[item.path] # "absent"
            /\ cleanedFile' = [cleanedFile EXCEPT ![item.path] = "partial"]
            /\ UNCHANGED textFile
    /\ run' = [run EXCEPT ![p] = Idle]
    /\ SetPrev("none")
    /\ UNCHANGED <<registry, regFile, raw, rawDir, chunkFile, log, logOpen>>

\* The process is killed inside json.dump of the registry, after
\* open(METADATA_FILE, 'w') emptied the file.
SavesRegistry(p) ==
    \/ /\ run[p].stage \in Sources \cup {"extract"}
       /\ run[p].work = <<>>
       /\ run[p].done # <<>>
       /\ regFile = "ok"
    \/ /\ run[p].stage = "embed"
       /\ run[p].chunk > 0
       /\ run[p].chunk > Len(CurrentChunks(p))

KillInSave(p) ==
    /\ faults < MaxFaults
    /\ faults' = faults + 1
    /\ UNCHANGED remote
    /\ crashed' = CrashedAfter(p)
    /\ SavesRegistry(p)
    /\ regFile' = "truncated"
    /\ run' = [run EXCEPT ![p] = Idle]
    /\ SetPrev("none")
    /\ UNCHANGED <<registry, files, log, logOpen>>

\* update_chunk_status or remove_duplicates killed inside its json.dump.
KillInScriptSave ==
    /\ faults < MaxFaults
    /\ faults' = faults + 1
    /\ UNCHANGED remote
    /\ UNCHANGED crashed
    /\ \A p \in Procs : IsIdle(p)
    /\ regFile = "ok"
    /\ regFile' = "truncated"
    /\ SetPrev("none")
    /\ UNCHANGED <<registry, files, log, logOpen, run>>

\* add_embeddings killed inside append_jsonl: part of the line is in the file.
KillInAppend(p) ==
    /\ faults < MaxFaults
    /\ faults' = faults + 1
    /\ UNCHANGED remote
    /\ crashed' = CrashedAfter(p)
    /\ run[p].stage = "embed"
    /\ run[p].chunk > 0
    /\ run[p].chunk <= Len(CurrentChunks(p))
    /\ CurrentChunks(p)[run[p].chunk]
    /\ Len(log) < MaxLog
    /\ log' = append_jsonl(log, logOpen, Garbage)
    /\ logOpen' = TRUE
    /\ run' = [run EXCEPT ![p] = Idle]
    /\ SetPrev("none")
    /\ UNCHANGED <<registry, regFile, files>>

\* upload_embeddings killed inside rewrite_jsonl_with_flag, after
\* open(path, "w") emptied the log: the first j records are in the file, and
\* possibly part of the next one.
KillInRewrite(p) ==
    /\ faults < MaxFaults
    /\ faults' = faults + 1
    /\ UNCHANGED remote
    /\ UNCHANGED crashed
    /\ InUpload(p)
    /\ run[p].idx > Len(run[p].records)
    /\ run[p].records # <<>>
    /\ \E j \in 0..(Len(run[p].records) - 1), cut \in BOOLEAN :
          /\ log' = SubSeq(run[p].records, 1, j) \o
                       (IF cut THEN <<Garbage>> ELSE <<>>)
          /\ logOpen' = cut
    /\ run' = [run EXCEPT ![p] = Idle]
    /\ SetPrev("none")
    /\ UNCHANGED <<registry, regFile, files>>

\* ------------------------------------------------------------ environment
\* Somebody removes an artifact file between two runs.
DeleteArtifact ==
    /\ faults < MaxFaults
    /\ faults' = faults + 1
    /\ UNCHANGED remote
    /\ UNCHANGED crashed
    /\ \A p \in Procs : IsIdle(p)
    /\ \E r \in Keys :
          \/ /\ textFile[r] # "absent"
             /\ textFile' = [textFile EXCEPT ![r] = "absent"]
             /\ UNCHANGED <<cleanedFile, chunkFile>>
          \/ /\ cleanedFile[r] # "absent"
             /\ cleanedFile' = [cleanedFile EXCEPT ![r] = "absent"]
             /\ UNCHANGED <<textFile, chunkFile>>
          \/ /\ chunkFile[r].kind # "absent"
             /\ chunkFile' = [chunkFile EXCEPT ![r] = NoChunkFile]
             /\ UNCHANGED <<textFile, cleanedFile>>
    /\ SetPrev("none")
    /\ UNCHANGED <<registry, regFile, raw, rawDir, log, logOpen, run>>

\* ------------------------------------------------------------- initial state
NewDoc(url, rp, title, site, ps) ==
    [source_url |-> url, raw_path |-> rp, title |-> title,
     source_website |-> site, hasPS |-> ps,
     text_path |-> NoPath, cleaned_path |-> NoPath, chunked_path |-> NoPath,
     status |-> "downloaded",
     text_extracted |-> FALSE, text_cleaned |-> FALSE,
     chunked |-> FALSE, embedded |-> FALSE]

InitFiles ==
    /\ raw \in [Keys -> {"good", "bad"}]
    /\ rawDir \in {d \in [Keys -> {"pakistan-code", "supremecourt"}] :
                      d[1] = "pakistan-code"}
    /\ textFile = [r \in Keys |-> "absent"]
    /\ cleanedFile = [r \in Keys |-> "absent"]
    /\ chunkFile = [r \in Keys |-> NoChunkFile]

InitRest ==
    /\ regFile = "ok"
    /\ remote = NoRemote
    /\ crashed = {}
    /\ log = <<>>
    /\ logOpen = FALSE
    /\ run = [p \in OneProc |-> Idle]
    /\ faults = 0

\* A registry as the scrapers leave it: nothing processed, distinct identities.
NewRegistry ==
    [docs |-> [i \in 1..Cardinality(Keys) |-> NewDoc(i, i, i, rawDir[i], TRUE)],
     total_documents |-> Cardinality(Keys),
     total_cleaned |-> 0,
     total_chunked |-> Absent]

Init ==
    /\ InitFiles
    /\ InitRest
    /\ registry = NewRegistry
    /\ prev = "off"

\* The same, recording which stage ran last.
InitTwice ==
    /\ InitFiles
    /\ InitRest
    /\ registry = NewRegistry
    /\ prev = "none"

\* Registries the scripts provide for: a record may have no processing_status
\* (the extractor tests for it, the cleaners create it), and the second record
\* may repeat the raw_path or the source_url of the first (remove_duplicates
\* exists to drop such records). Every raw file is readable.
InitAny ==
    /\ InitFiles
    /\ \A r \in Keys : raw[r] = "good"
    /\ InitRest
    /\ prev = "off"
    /\ \E ps \in [Keys -> BOOLEAN], url \in Keys, rp \in Keys :
          registry = [NewRegistry EXCEPT !.docs =
                        <<NewDoc(1, 1, 1, rawDir[1], ps[1]),
                          NewDoc(url, rp, 2, rawDir[rp], ps[2])>>]

\* Registries of three records over the two raw files and the two
\* source_urls: some records repeat the raw_path or the source_url of an
\* earlier one, in every combination. Every raw file is readable.
InitShared ==
    /\ InitFiles
    /\ \A r \in Keys : raw[r] = "good"
    /\ InitRest
    /\ prev = "off"
    /\ \E url \in [{2, 3} -> Keys], rp \in [{2, 3} -> Keys] :
          registry = [NewRegistry EXCEPT
                        !.docs = <<NewDoc(1, 1, 1, rawDir[1], TRUE),
                                   NewDoc(url[2], rp[2], 2, rawDir[rp[2]], TRUE),
                                   NewDoc(url[3], rp[3], 3, rawDir[rp[3]], TRUE)>>,
                        !.total_documents = 3]

\* Registries of two documents with distinct source_urls and raw files whose
\* titles may be the same (the scrapers take the title from the page).
InitTitles ==
    /\ InitFiles
    /\ \A r \in Keys : raw[r] = "good" /\ rawDir[r] = "pakistan-code"
    /\ InitRest
    /\ prev = "off"
    /\ \E t \in Keys :
          registry = [NewRegistry EXCEPT !.docs =
                        <<NewDoc(1, 1, 1, rawDir[1], TRUE),
                          NewDoc(2, 2, t, rawDir[2], TRUE)>>]

\* The stages that produce one artifact file for each document.
FileStages ==
    \/ \E p \in Procs : ExtractStart(p)
    \/ \E p \in Procs : ExtractFile(p)
    \/ \E p \in Procs : ExtractUpdateMetadata(p)
    \/ \E p \in Procs, c \in Sources : CleanStart(p, c)
    \/ \E p \in Procs : CleanFile(p)
    \/ \E p \in Procs : CleanUpdateMetadata(p)
    \/ UpdateChunkStatus
    \/ CreateEmptyJsons
    \/ ChunkerWrites

\* A cleaner of any source called on any text, after an earlier file of the
\* run was or was not rejected.
InitClean ==
    /\ raw = [r \in Keys |-> "good"]
    /\ rawDir = [r \in Keys |-> "pakistan-code"]
    /\ textFile = [r \in Keys |-> "full"]
    /\ cleanedFile = [r \in Keys |-> "absent"]
    /\ chunkFile = [r \in Keys |-> NoChunkFile]
    /\ registry = EmptyRegistry
    /\ regFile = "ok"
    /\ log = <<>>
    /\ logOpen = FALSE
    /\ faults = 0
    /\ prev = "off"
    /\ remote = NoRemote
    /\ crashed = {}
    /\ \E c \in Sources, t \in Texts,
          errs \in {<<>>, <<[file |-> "a.txt", reason |-> "Cleaned text too short"]>>} :
          run = [p \in OneProc |->
                   [stage |-> "clean_text", at |-> "steps", cleaner |-> c,
                    filename |-> "b.txt", original_text |-> t, text |-> t,
                    errors_before |-> errs, validation_errors |-> errs,
                    returned |-> t]]

NextClean ==
    \/ \E p \in Procs : CleanTextSteps(p)
    \/ \E p \in Procs : CleanTextValidate(p)

\* A document of the registry after every stage up to add_embeddings.
EmbeddedDoc(i) ==
    [NewDoc(i, i, i, "pakistan-code", TRUE) EXCEPT
        !.text_path = i, !.cleaned_path = i, !.chunked_path = i,
        !.status = "embedded", !.text_extracted = TRUE, !.text_cleaned = TRUE,
        !.chunked = TRUE, !.embedded = TRUE]

\* The log add_embeddings leaves for documents of n[1], n[2], ... chunks.
EmbeddedLog(n) ==
    IF n[1] = 0 THEN [k \in 1..n[2] |-> Record(k, EmbeddedDoc(2), k)]
    ELSE [k \in 1..(n[1] + n[2]) |->
            IF k <= n[1] THEN Record(k, EmbeddedDoc(1), k)
            ELSE Record(k, EmbeddedDoc(2), k - n[1])]

\* The pipeline after add_embeddings and before the first upload: each
\* document either untouched or embedded with its chunks in the log, and the
\* log possibly ending in a line that a killed run cut short.
InitUpload ==
    /\ raw = [r \in Keys |-> "good"]
    /\ rawDir = [r \in Keys |-> "pakistan-code"]
    /\ regFile = "ok"
    /\ run = [p \in OneProc |-> Idle]
    /\ faults = 0
    /\ prev = "off"
    /\ remote = NoRemote
    /\ crashed = {}
    /\ \E n \in [Keys -> 0..MaxChunks], cut \in BOOLEAN :
          /\ n[1] + n[2] + (IF cut THEN 1 ELSE 0) <= MaxUploadLog
          /\ textFile = [r \in Keys |-> IF n[r] > 0 THEN "full" ELSE "absent"]
          /\ cleanedFile = [r \in Keys |-> IF n[r] > 0 THEN "full" ELSE "absent"]
          /\ chunkFile = [r \in Keys |->
                            IF n[r] > 0
                            THEN [kind |-> "chunks", chunks |-> [k \in 1..n[r] |-> TRUE]]
                            ELSE NoChunkFile]
          /\ registry = [docs |-> [i \in 1..Cardinality(Keys) |->
                                     IF n[i] > 0 THEN EmbeddedDoc(i)
                                     ELSE NewDoc(i, i, i, "pakistan-code", TRUE)],
                         total_documents |-> Cardinality(Keys),
                         total_cleaned |-> Cardinality({r \in Keys : n[r] > 0}),
                         total_chunked |-> Cardinality({r \in Keys : n[r] > 0})]
          /\ log = EmbeddedLog(n) \o (IF cut THEN <<Garbage>> ELSE <<>>)
          /\ logOpen = cut

\* Upload passes one after another, with process kills.
NextUpload ==
    \/ \E p \in Procs : UploadStart(p)
    \/ \E p \in Procs : UploadRecord(p)
    \/ \E p \in Procs : UploadRewrite(p)
    \/ \E p \in Procs : Kill(p)
    \/ \E p \in Procs : KillInRewrite(p)

\* A document of the registry after cleaning, and after update_chunk_status
\* found its chunk file.
CleanedDoc(i) ==
    [NewDoc(i, i, i, "pakistan-code", TRUE) EXCEPT
        !.text_path = i, !.cleaned_path = i, !.status = "text_cleaned",
        !.text_extracted = TRUE, !.text_cleaned = TRUE]

ChunkedDoc(i) ==
    [CleanedDoc(i) EXCEPT !.chunked_path = i, !.status = "chunked",
                          !.chunked = TRUE]

\* The pipeline when add_embeddings is run: every document cleaned, some of
\* them chunked, and the first one possibly embedded by an earlier run with
\* its records in the log.
InitEmbed ==
    /\ raw = [r \in Keys |-> "good"]
    /\ rawDir = [r \in Keys |-> "pakistan-code"]
    /\ textFile = [r \in Keys |-> "full"]
    /\ cleanedFile = [r \in Keys |-> "full"]
    /\ regFile = "ok"
    /\ logOpen = FALSE
    /\ run = [p \in OneProc |-> Idle]
    /\ faults = 0
    /\ prev = "off"
    /\ remote = NoRemote
    /\ crashed = {}
    /\ \E stage \in [Keys -> {"cleaned", "chunked", "embedded"}] :
       \E cs \in [Keys -> ChunkLists] :
          /\ stage[2] # "embedded"
          /\ stage[1] = "embedded" => \A k \in 1..Len(cs[1]) : cs[1][k]
          /\ chunkFile = [r \in Keys |->
                            IF stage[r] = "cleaned" THEN NoChunkFile
                            ELSE [kind |-> "chunks", chunks |-> cs[r]]]
          /\ registry = [docs |-> [i \in 1..Cardinality(Keys) |->
                                     CASE stage[i] = "cleaned" -> CleanedDoc(i)
                                       [] stage[i] = "chunked" -> ChunkedDoc(i)
                                       [] stage[i] = "embedded" -> EmbeddedDoc(i)],
                         total_documents |-> Cardinality(Keys),
                         total_cleaned |-> Cardinality(Keys),
                         total_chunked |->
                            Cardinality({r \in Keys : stage[r] # "cleaned"})]
          /\ log = IF stage[1] = "embedded"
                   THEN [k \in 1..Len(cs[1]) |-> Record(k, EmbeddedDoc(1), k)]
                   ELSE <<>>

\* Runs of add_embeddings one after another, with process kills.
NextEmbed ==
    \/ \E p \in Procs : EmbedStart(p)
    \/ \E p \in Procs : EmbedSelect(p)
    \/ \E p \in Procs : EmbedAppend(p)
    \/ \E p \in Procs : EmbedMark(p)
    \/ \E p \in Procs : Kill(p)
    \/ \E p \in Procs : KillInSave(p)
    \/ \E p \in Procs : KillInAppend(p)

\* Two chunked documents with their chunk files, an empty log, and one
\* operator or two who run add_embeddings.
InitOverlap ==
    /\ raw = [r \in Keys |-> "good"]
    /\ rawDir = [r \in Keys |-> "pakistan-code"]
    /\ textFile = [r \in Keys |-> "full"]
    /\ cleanedFile = [r \in Keys |-> "full"]
    /\ regFile = "ok"
    /\ log = <<>>
    /\ logOpen = FALSE
    /\ \E procs \in {OneProc, TwoProcs} : run = [p \in procs |-> Idle]
    /\ faults = 0
    /\ prev = "off"
    /\ remote = NoRemote
    /\ crashed = {}
    /\ \E cs \in [Keys -> ChunkLists] :
          chunkFile = [r \in Keys |-> [kind |-> "chunks", chunks |-> cs[r]]]
    /\ registry = [docs |-> [i \in 1..Cardinality(Keys) |-> ChunkedDoc(i)],
                   total_documents |-> Cardinality(Keys),
                   total_cleaned |-> Cardinality(Keys),
                   total_chunked |-> Cardinality(Keys)]

\* Runs of add_embeddings, each to its end; a run of one operator can be
\* started while the run of the other is under way.
NextOverlap ==
    \/ \E p \in Procs : EmbedStart(p)
    \/ \E p \in Procs : EmbedSelect(p)
    \/ \E p \in Procs : EmbedAppend(p)
    \/ \E p \in Procs : EmbedMark(p)

Stages ==
    \/ FileStages
    \/ \E p \in Procs : EmbedStart(p)
    \/ \E p \in Procs : EmbedSelect(p)
    \/ \E p \in Procs : EmbedAppend(p)
    \/ \E p \in Procs : EmbedMark(p)
    \/ RemoveDuplicates

Kills ==
    \/ \E p \in Procs : Kill(p)
    \/ \E p \in Procs : KillInWrite(p)
    \/ \E p \in Procs : KillInSave(p)
    \/ \E p \in Procs : KillInAppend(p)
    \/ KillInScriptSave

Next == Stages \/ Kills

NextEnv == FileStages \/ DeleteArtifact

\* Stage runs one after another, with process kills.
Spec == Init /\ [][Next]_vars

\* Runs of the file-producing stages one after another, with artifact files
\* removed from outside between runs.
SpecEnv == Init /\ [][NextEnv]_vars

\* Stage runs one after another, each running to its end, recording which
\* stage ran last.
SpecTwice == InitTwice /\ [][Stages]_vars

\* clean_text of the four cleaners, on every text and every outcome of the steps.
SpecClean == InitClean /\ [][NextClean]_vars

\* Stage runs one after another over the registries of InitAny.
SpecAny == InitAny /\ [][Stages]_vars

\* Stage runs one after another over the registries of InitShared.
SpecShared == InitShared /\ [][Stages]_vars

\* The registries remove_duplicates_by_raw_path is called on: three records,
\* each with the raw_path of one of the two raw files or with none, in every
\* combination, told apart by their titles.
InitDuplicates ==
    /\ InitFiles
    /\ \A r \in Keys : raw[r] = "good"
    /\ InitRest
    /\ prev = "none"
    /\ \E url \in [1..3 -> Keys], rp \in [1..3 -> Keys \cup {NoPath}] :
          registry = [NewRegistry EXCEPT
                        !.docs = [i \in 1..3 |->
                                    NewDoc(url[i], rp[i], i, "pakistan-code", TRUE)],
                        !.total_documents = 3]

NextDuplicates ==
    \/ RemoveDuplicates
    \/ \E p \in Procs : ExtractStart(p)
    \/ \E p \in Procs : ExtractFile(p)
    \/ \E p \in Procs : ExtractUpdateMetadata(p)

\* Runs of remove_duplicates and of the extractor, one after another.
SpecDuplicates == InitDuplicates /\ [][NextDuplicates]_vars

\* Stage runs one after another, with process kills, over the registries of
\* InitTitles.
SpecTitles == InitTitles /\ [][Next]_vars

\* Runs of add_embeddings alone, with process kills.
SpecEmbed == InitEmbed /\ [][NextEmbed]_vars

\* Upload passes one after another over the logs of InitUpload.
SpecUpload == InitUpload /\ [][NextUpload]_vars

\* Runs of add_embeddings by one operator, one after another, or by two
\* operators, side by side.
SpecOverlap == InitOverlap /\ [][NextOverlap]_vars

\* A document of the registry after extraction.
ExtractedDoc(i, site) ==
    [NewDoc(i, i, i, site, TRUE) EXCEPT
        !.text_path = i, !.status = "text_extracted", !.text_extracted = TRUE]

\* Two extracted documents of one source, nothing cleaned.
InitCleanRun ==
    /\ InitRest
    /\ prev = "off"
    /\ raw = [r \in Keys |-> "good"]
    /\ textFile = [r \in Keys |-> "full"]
    /\ cleanedFile = [r \in Keys |-> "absent"]
    /\ chunkFile = [r \in Keys |-> NoChunkFile]
    /\ \E site \in Sources :
          /\ rawDir = [r \in Keys |-> site]
          /\ registry = [docs |-> [i \in 1..Cardinality(Keys) |->
                                      ExtractedDoc(i, site)],
                         total_documents |-> Cardinality(Keys),
                         total_cleaned |-> 0,
                         total_chunked |-> Absent]

NextCleanRun ==
    \/ \E p \in Procs, c \in Sources : CleanStart(p, c)
    \/ \E p \in Procs : CleanFileText(p)
    \/ \E p \in Procs : CleanUpdateMetadata(p)

\* Runs of the four cleaners one after another, with the texts followed
\* through clean_file.
SpecCleanRun == InitCleanRun /\ [][NextCleanRun]_vars

\* What can be at the place of a chunk file: nothing, the {} of
\* create_empty_jsons, text that json.load rejects, {"chunks": []}, or the
\* chunks of the chunker.
ChunkFileKinds ==
    {NoChunkFile,
     [kind |-> "placeholder", chunks |-> <<>>],
     [kind |-> "garbage", chunks |-> <<>>],
     [kind |-> "chunks", chunks |-> <<>>]}
    \cup {[kind |-> "chunks", chunks |-> cs] : cs \in ChunkLists}

\* Two cleaned documents and whatever is at the place of their chunk files.
InitChunks ==
    /\ InitRest
    /\ prev = "off"
    /\ raw = [r \in Keys |-> "good"]
    /\ rawDir = [r \in Keys |-> "pakistan-code"]
    /\ textFile = [r \in Keys |-> "full"]
    /\ cleanedFile = [r \in Keys |-> "full"]
    /\ chunkFile \in [Keys -> ChunkFileKinds]
    /\ registry = [docs |-> [i \in 1..Cardinality(Keys) |-> CleanedDoc(i)],
                   total_documents |-> Cardinality(Keys),
                   total_cleaned |-> Cardinality(Keys),
                   total_chunked |-> Absent]

NextChunks ==
    \/ UpdateChunkStatus
    \/ CreateEmptyJsons
    \/ ChunkerWrites
    \/ \E p \in Procs : EmbedStart(p)
    \/ \E p \in Procs : EmbedSelect(p)
    \/ \E p \in Procs : EmbedAppend(p)
    \/ \E p \in Procs : EmbedMark(p)

\* Runs of create_empty_jsons, the chunker, update_chunk_status and
\* add_embeddings, one after another, over cleaned documents.
SpecChunks == InitChunks /\ [][NextChunks]_vars

\* The same documents and chunk files, one of the cleaned files possibly
\* missing, recording which script ran last.
InitChunkRuns ==
    /\ InitRest
    /\ prev = "none"
    /\ raw = [r \in Keys |-> "good"]
    /\ rawDir = [r \in Keys |-> "pakistan-code"]
    /\ textFile = [r \in Keys |-> "full"]
    /\ cleanedFile \in [Keys -> {"full", "absent"}]
    /\ chunkFile \in [Keys -> ChunkFileKinds]
    /\ registry = [docs |-> [i \in 1..Cardinality(Keys) |-> CleanedDoc(i)],
                   total_documents |-> Cardinality(Keys),
                   total_cleaned |-> Cardinality(Keys),
                   total_chunked |-> Absent]

SpecChunkRuns == InitChunkRuns /\ [][NextChunks]_vars

\* Two operators. Document 2, of kp-code, is extracted; document 1, of
\* pakistan-code, is extracted as well or is cleaned and chunked already.
InitSideBySide ==
    /\ regFile = "ok"
    /\ remote = NoRemote
    /\ crashed = {}
    /\ log = <<>>
    /\ logOpen = FALSE
    /\ faults = 0
    /\ prev = "off"
    /\ run = [p \in TwoProcs |-> Idle]
    /\ raw = [r \in Keys |-> "good"]
    /\ rawDir = [r \in Keys |-> IF r = 1 THEN "pakistan-code" ELSE "kp-code"]
    /\ textFile = [r \in Keys |-> "full"]
    /\ \E chunked \in BOOLEAN, n \in 1..MaxChunks :
          /\ cleanedFile = [r \in Keys |->
                              IF r = 1 /\ chunked THEN "full" ELSE "absent"]
          /\ chunkFile = [r \in Keys |->
                            IF r = 1 /\ chunked
                            THEN [kind |-> "chunks", chunks |-> [k \in 1..n |-> TRUE]]
                            ELSE NoChunkFile]
          /\ registry = [docs |-> [i \in 1..Cardinality(Keys) |->
                                      IF i = 1
                                      THEN (IF chunked THEN ChunkedDoc(1)
                                            ELSE ExtractedDoc(1, "pakistan-code"))
                                      ELSE ExtractedDoc(i, "kp-code")],
                         total_documents |-> Cardinality(Keys),
                         total_cleaned |-> IF chunked THEN 1 ELSE 0,
                         total_chunked |-> IF chunked THEN 1 ELSE Absent]

NextSideBySide ==
    \/ \E p \in Procs, c \in Sources : CleanStart(p, c)
    \/ \E p \in Procs : CleanFile(p)
    \/ \E p \in Procs : CleanLoadMetadata(p)
    \/ \E p \in Procs : CleanSaveMetadata(p)
    \/ \E p \in Procs : CleanNothingToUpdate(p)
    \/ \E p \in Procs : EmbedStart(p)
    \/ \E p \in Procs : EmbedSelect(p)
    \/ \E p \in Procs : EmbedAppend(p)
    \/ \E p \in Procs : EmbedMark(p)

\* Runs of the cleaners and of add_embeddings by two operators, side by side.
SpecSideBySide == InitSideBySide /\ [][NextSideBySide]_vars

\* The state before the first stage run with one document whose raw file
\* can be extracted and one whose raw file cannot.
InitPipeline ==
    /\ Init
    /\ raw = [r \in Keys |-> IF r = 1 THEN "good" ELSE "bad"]
    /\ rawDir = [r \in Keys |-> "pakistan-code"]

UploadStages ==
    \/ \E p \in Procs : UploadStart(p)
    \/ \E p \in Procs : UploadRecord(p)
    \/ \E p \in Procs : UploadRewrite(p)

NextPipeline ==
    \/ Stages
    \/ UploadStages
    \/ \E p \in Procs : KillInWrite(p)

\* Runs of every stage, upload passes included, one after another, with
\* kills inside the write of a text or cleaned file.
SpecPipeline == InitPipeline /\ [][NextPipeline]_vars

NextRemovals ==
    \/ Stages
    \/ DeleteArtifact

\* Stage runs one after another, each to its end, with artifact files
\* removed from outside between runs, over one document whose raw file can be
\* extracted and one whose raw file cannot.
SpecRemovals == InitPipeline /\ [][NextRemovals]_vars

\* ==================================================================== claims
\* A run of extraction or of a cleaner that has selected its work and has not
\* processed anything yet: the disk is as the selection saw it.
Fresh(p) ==
    /\ regFile = "ok"
    /\ run[p].done = <<>>
    /\ Len(run[p].work) = Cardinality(run[p].selected)

\* Every flag of a record of reg that is true has its path and its file.
Reported(reg) ==
    \A i \in 1..Len(reg.docs) :
       LET doc == reg.docs[i] IN
       /\ doc.text_extracted =>
             (doc.text_path # NoPath /\ textFile[doc.text_path] # "absent")
       /\ doc.text_cleaned =>
             (doc.cleaned_path # NoPath /\ cleanedFile[doc.cleaned_path] # "absent")
       /\ doc.chunked =>
             (doc.chunked_path # NoPath /\ chunkFile[doc.chunked_path].kind # "absent")

\* A step that turns a flag on, or changes the path of a flag that is on, finds
\* the file on disk before the step.
ReportsAfterWrite ==
    Len(registry'.docs) = Len(registry.docs) =>
    \A i \in 1..Len(registry.docs) :
       LET old == registry.docs[i]
           new == registry'.docs[i] IN
       /\ (new.text_extracted
             /\ (~old.text_extracted \/ new.text_path # old.text_path)) =>
             (new.text_path # NoPath /\ textFile[new.text_path] # "absent")
       /\ (new.text_cleaned
             /\ (~old.text_cleaned \/ new.cleaned_path # old.cleaned_path)) =>
             (new.cleaned_path # NoPath /\ cleanedFile[new.cleaned_path] # "absent")
       /\ (new.chunked
             /\ (~old.chunked \/ new.chunked_path # old.chunked_path)) =>
             (new.chunked_path # NoPath /\ chunkFile[new.chunked_path].kind # "absent")

\* C1: in every state of any sequence of stage runs, process kills included
\* and no file removed from outside, a record of the readable registry whose
\* text_extracted, text_cleaned or chunked flag is true has the matching path
\* field set and the file it names is on disk; and every registry write that
\* turns such a flag on comes after the write of the file.
C1_FlagsHaveArtifacts ==
    /\ [](regFile = "ok" => Reported(registry))
    /\ [][ReportsAfterWrite]_vars

\* A document with the three flags on, after a process kill.
C1_Witness ==
    /\ regFile = "ok"
    /\ faults > 0
    /\ \E i \in 1..Len(registry.docs) :
          /\ registry.docs[i].text_extracted
          /\ registry.docs[i].text_cleaned
          /\ registry.docs[i].chunked

\* C2: clean_text of each of the four cleaners returns the text after the
\* steps only when _validate_cleaning accepted it, and original_text otherwise;
\* a rejection appends exactly one validation_errors entry, for the file at
\* hand, and an acceptance appends none.
C2_AllOrNothing ==
    \A p \in Procs :
       (InClean(p) /\ run[p].at = "returned") =>
          LET r == run[p]
              accepted == validate_cleaning(r.cleaner, r.original_text, r.text) = Valid
          IN /\ r.returned \in {r.text, r.original_text}
             /\ accepted => /\ r.returned = r.text
                            /\ r.validation_errors = r.errors_before
             /\ ~accepted => /\ r.returned = r.original_text
                             /\ Len(r.validation_errors) = Len(r.errors_before) + 1
                             /\ SubSeq(r.validation_errors, 1, Len(r.errors_before))
                                   = r.errors_before
                             /\ r.validation_errors[Len(r.validation_errors)].file
                                   = r.filename

\* A rejected transformation: the steps changed the text, clean_text returned
\* the original and recorded the rejection.
C2_Witness ==
    \E p \in Procs :
       /\ InClean(p)
       /\ run[p].at = "returned"
       /\ run[p].text # run[p].original_text
       /\ run[p].returned = run[p].original_text
       /\ Len(run[p].validation_errors) = Len(run[p].errors_before) + 1

\* C3: in the second of two runs of one stage in a row, with nothing changed
\* in between, no step changes an artifact file, the log or the registry
\* (its counters included).
C3_SecondRunChangesNothing ==
    [][(prev \notin {"none", "off"} /\ prev' = prev) =>
          UNCHANGED <<registry, regFile, textFile, cleanedFile, chunkFile,
                      log, logOpen>>]_vars

\* C4: as long as no process was killed (and no file is removed from outside),
\* a run of extraction selects no document whose text_extracted flag is on,
\* a run of a cleaner selects no document whose text_cleaned flag is on, and a
\* run of add_embeddings embeds no document whose embedded flag is on.
C4_ProcessedOnce ==
    faults = 0 =>
    \A p \in Procs :
       /\ run[p].stage = "extract" =>
             \A i \in run[p].selected : ~registry.docs[i].text_extracted
       /\ run[p].stage \in Sources =>
             \A i \in run[p].selected : ~registry.docs[i].text_cleaned
       /\ (run[p].stage = "embed" /\ run[p].chunk > 0) => ~CurrentDoc(p).embedded

\* The precedence rule of a gate: the output path is absent, or the stage's own
\* flag is off, or the path is set and the file is missing.
NeedsProcessing(flag, path, onDisk) == path = NoPath \/ ~flag \/ ~onDisk

\* C5: a run of extraction selects, among the records whose raw file is
\* there, exactly those for which the precedence rule holds of
\* (text_extracted, text_path, text file); a run of a cleaner selects, among
\* the records of its source whose text file is there, exactly those for which
\* it holds of (text_cleaned, cleaned_path, cleaned file).
C5_GateFollowsRule ==
    \A p \in Procs :
       Fresh(p) =>
          LET docs == registry.docs IN
          /\ run[p].stage = "extract" =>
                run[p].selected =
                   {i \in 1..Len(docs) :
                       /\ docs[i].raw_path # NoPath
                       /\ raw[docs[i].raw_path] # "missing"
                       /\ NeedsProcessing(docs[i].text_extracted, docs[i].text_path,
                             docs[i].text_path # NoPath
                                /\ textFile[docs[i].text_path] # "absent")}
          /\ run[p].stage \in Sources =>
                run[p].selected =
                   {i \in 1..Len(docs) :
                       /\ docs[i].source_website = run[p].stage
                       /\ docs[i].text_path # NoPath
                       /\ textFile[docs[i].text_path] # "absent"
                       /\ NeedsProcessing(docs[i].text_cleaned, docs[i].cleaned_path,
                             docs[i].cleaned_path # NoPath
                                /\ cleanedFile[docs[i].cleaned_path] # "absent")}

\* update_chunk_status turns chunked on only for a record with text_cleaned on.
ChunkedAfterCleaned ==
    Len(registry'.docs) = Len(registry.docs) =>
    \A i \in 1..Len(registry.docs) :
       (registry'.docs[i].chunked /\ ~registry.docs[i].chunked) =>
          registry.docs[i].text_cleaned

\* C6: a cleaner selects no document whose text_extracted flag is off,
\* update_chunk_status marks chunked no document whose text_cleaned flag is
\* off, and add_embeddings embeds no document whose chunked flag is off.
C6_UpstreamFlagRequired ==
    /\ [](\A p \in Procs :
            /\ run[p].stage \in Sources =>
                  \A i \in run[p].selected : registry.docs[i].text_extracted
            /\ (run[p].stage = "embed" /\ run[p].chunk > 0) => CurrentDoc(p).chunked)
    /\ [][ChunkedAfterCleaned]_vars

\* A completed document whose artifact is gone while its input is there is
\* selected by the run that starts.
SelectsDeleted ==
    \A p \in Procs :
       Fresh(p) =>
          \A i \in 1..Len(registry.docs) :
             LET doc == registry.docs[i] IN
             /\ ( /\ run[p].stage = "extract"
                  /\ doc.text_extracted
                  /\ doc.text_path # NoPath
                  /\ textFile[doc.text_path] = "absent"
                  /\ raw[doc.raw_path] # "missing" ) => i \in run[p].selected
             /\ ( /\ run[p].stage \in Sources
                  /\ doc.source_website = run[p].stage
                  /\ doc.text_cleaned
                  /\ doc.cleaned_path # NoPath
                  /\ cleanedFile[doc.cleaned_path] = "absent"
                  /\ doc.text_path # NoPath
                  /\ textFile[doc.text_path] # "absent" ) => i \in run[p].selected

\* The step that ends a run which processed all its work leaves every
\* completed document it had selected with its artifact and its flag.
RestoresDeleted ==
    \A p \in Procs :
       (run[p].stage # "idle" /\ run'[p].stage = "idle" /\ run[p].work = <<>>) =>
          \A i \in run[p].selected :
             LET old == registry.docs[i]
                 new == registry'.docs[i] IN
             /\ (run[p].stage = "extract" /\ old.text_extracted
                    /\ old.text_path # NoPath) =>
                   /\ new.text_extracted
                   /\ new.text_path # NoPath
                   /\ textFile'[new.text_path] = "full"
             /\ (run[p].stage \in Sources /\ old.text_cleaned
                    /\ old.cleaned_path # NoPath) =>
                   /\ new.text_cleaned
                   /\ new.cleaned_path # NoPath
                   /\ cleanedFile'[new.cleaned_path] = "full"

\* C7: when the text or cleaned file of a completed document (flag on, path
\* set) was removed between two runs and its input is still there, the next
\* run of the stage selects the document, and when that run ends the file is
\* there again and the flag is on.
C7_DeletedArtifactRedone ==
    /\ []SelectsDeleted
    /\ [][RestoresDeleted]_vars

\* An extraction run that selected a completed document only because its text
\* file had been removed, and has written the file again.
C7_Witness ==
    \E p \in Procs :
       /\ run[p].stage = "extract"
       /\ faults > 0
       /\ run[p].work = <<>>
       /\ \E i \in run[p].selected :
             /\ registry.docs[i].status = "text_extracted"
             /\ registry.docs[i].text_extracted
             /\ registry.docs[i].text_path # NoPath
             /\ textFile[registry.docs[i].text_path] = "full"

\* C8: every step that changes the registry leaves total_cleaned equal to the
\* number of records with text_cleaned on and total_documents equal to the
\* number of records.
C8_CountersMatch ==
    [][registry' # registry =>
          /\ registry'.total_cleaned = CountCleaned(registry'.docs)
          /\ registry'.total_documents = Len(registry'.docs)]_vars

\* C9: in every state, process kills included, the ids of the parsable lines
\* of the embedding log increase strictly in file order.
C9_IdsStrictlyIncrease ==
    \A i, j \in 1..Len(log) :
       (i < j /\ log[i].ok /\ log[j].ok) => log[i].id < log[j].id

\* C10: during an embedding run that found the log with M complete records of
\* ids 1..M (M = 0 for no log), the lines of the log are still the records of
\* ids 1, 2, ... in file order, so the records the run appended carry M+1,
\* M+2, ... without gap or repeat, and the next id is one past the last.
C10_IdsContinue ==
    \A p \in Procs :
       (run[p].stage = "embed" /\ run[p].startOk) =>
          /\ ~logOpen
          /\ Len(log) >= run[p].startLen
          /\ Numbered(log, Len(log))
          /\ run[p].id_counter = Len(log) + 1

\* A run that started after one record or more and has appended two.
C10_Witness ==
    \E p \in Procs :
       /\ run[p].stage = "embed"
       /\ run[p].startOk
       /\ run[p].startLen >= 1
       /\ Len(log) >= run[p].startLen + 2
\* C11: during an upload pass, a record's upload flag is true only if it was
\* true when the pass read the log or, in this pass, both qdrant.upsert and
\* update_one succeeded for the record.
C11_FlagNeedsBothStores ==
    \A p \in Procs :
       InUpload(p) =>
          \A k \in 1..Len(run[p].records) :
             run[p].records[k].upload =>
                \/ run[p].start[k].upload
                \/ k \in run[p].qok /\ k \in run[p].mok

\* A pass of upload_embeddings ends with the rewrite of the log.
UploadPassEnds(p) == InUpload(p) /\ IsIdle(p)' /\ faults' = faults

\* C12: when an upload pass ends, every record that was unflagged when the
\* pass read the log has been attempted, whatever happened to the records
\* before it, every record both upserts succeeded for is flagged in the log,
\* and the log holds every record the pass read.
C12_FailureDoesNotStopPass ==
    [][\A p \in Procs :
          UploadPassEnds(p) =>
             /\ \A k \in 1..Len(run[p].start) :
                   ~run[p].start[k].upload => k \in run[p].tried
             /\ Len(log') = Len(run[p].start)
             /\ \A k \in run[p].qok \cap run[p].mok : log'[k].upload]_vars

\* A pass has ended in which the upsert of the first record failed and the
\* second record was uploaded and flagged.
C12_Witness ==
    /\ \A p \in Procs : IsIdle(p)
    /\ Len(log) >= 2
    /\ ~log[1].upload
    /\ log[1].id \notin remote.qdrant
    /\ log[2].upload
    /\ log[2].id \in remote.qdrant \cap remote.mongo

AllFlagged(lines) == \A k \in 1..Len(lines) : lines[k].upload

\* C13: a pass in which both upserts succeed for every record it found
\* unflagged leaves the log with every flag true; a pass that finds every flag
\* true calls neither qdrant.upsert nor update_one and rewrites the log with
\* every flag true.
C13_SecondPassWritesNothing ==
    /\ [](\A p \in Procs :
             InUpload(p) /\ AllFlagged(run[p].start) =>
                /\ run[p].qcalls = 0
                /\ run[p].mcalls = 0
                /\ AllFlagged(run[p].records))
    /\ [][\A p \in Procs :
             UploadPassEnds(p) =>
                /\ (\A k \in 1..Len(run[p].start) :
                       \/ run[p].start[k].upload
                       \/ k \in run[p].qok \cap run[p].mok) => AllFlagged(log')
                /\ AllFlagged(run[p].start) => AllFlagged(log')]_vars

\* A pass over two records, both flagged and both in the two stores, has
\* reached the end of its loop.
C13_Witness ==
    \E p \in Procs :
       /\ InUpload(p)
       /\ Len(run[p].start) >= 2
       /\ AllFlagged(run[p].start)
       /\ \A k \in 1..Len(run[p].start) :
             run[p].start[k].id \in remote.qdrant \cap remote.mongo
       /\ run[p].idx > Len(run[p].records)

\* The section tolerance of a profile, in percent of the original count.
SectionTolerance(c) ==
    CASE c = "balochistan-code" -> 2
      [] c = "kp-code" -> 5
      [] c = "pakistan-code" -> 10
      [] c = "supremecourt" -> 5

\* The section count of the text after the steps is off by more than the
\* profile's tolerance, in either direction.
SectionsOutOfTolerance(c, original, text) ==
    /\ original.sections > 0
    /\ 100 * Abs(original.sections - text.sections)
          > SectionTolerance(c) * original.sections

\* C14: under each of the four profiles, when the section count after the
\* steps differs from the original's by more than the profile's tolerance, in
\* either direction, clean_text returns the original text; so it does when
\* the steps removed 5 of 10 section headers.
C14_SectionMismatchRejected ==
    \A p \in Procs :
       InClean(p) /\ run[p].at = "returned" =>
          /\ SectionsOutOfTolerance(run[p].cleaner, run[p].original_text, run[p].text)
                => run[p].returned = run[p].original_text
          /\ run[p].original_text.sections = 10 /\ run[p].text.sections = 5
                => run[p].returned = run[p].original_text

\* The least length of an accepted text, in percent of the original's.
LengthFraction(c) ==
    CASE c = "balochistan-code" -> 80
      [] c = "kp-code" -> 75
      [] c = "pakistan-code" -> 50
      [] c = "supremecourt" -> 95

\* C15: under each profile clean_text returns the original text when the text
\* after the steps is shorter than the profile's fraction of the original or
\* shorter than 100 characters.
C15_LengthBoundsRejected ==
    \A p \in Procs :
       /\ InClean(p)
       /\ run[p].at = "returned"
       /\ \/ 100 * run[p].text.length
                < LengthFraction(run[p].cleaner) * run[p].original_text.length
          \/ run[p].text.length < 100
       => run[p].returned = run[p].original_text

UniqueUrls(docs) ==
    \A i, j \in 1..Len(docs) : docs[i].source_url = docs[j].source_url => i = j

\* A cleaner's run that selected exactly document i ends, over a registry
\* with unique source_urls and total_cleaned equal to the number of records
\* flagged text_cleaned.
CleansOnly(p, i) ==
    /\ run[p].stage \in Sources
    /\ IsIdle(p)'
    /\ faults' = faults
    /\ run[p].selected = {i}
    /\ regFile = "ok"
    /\ UniqueUrls(registry.docs)
    /\ registry.total_cleaned = CountCleaned(registry.docs)

\* What the run leaves of document i and of the other records.
CleanedOnly(i) ==
    /\ cleanedFile'[registry.docs[i].text_path] = "full"
    /\ registry'.docs[i].cleaned_path = registry.docs[i].text_path
    /\ registry'.docs[i].text_cleaned
    /\ Len(registry'.docs) = Len(registry.docs)
    /\ \A j \in 1..Len(registry.docs) :
          j # i => registry'.docs[j] = registry.docs[j]

AtDocument(p) ==
    /\ run[p].stage = "embed"
    /\ run[p].chunk = 0
    /\ run[p].idx <= Len(run[p].meta.docs)

\* C17: at the head of the document loop add_embeddings goes on to embed the
\* record exactly when its chunked flag is true and either its embedded flag
\* is false or no record of the log carries its title; otherwise it goes to
\* the next record.
C17_SelectsByFlagsAndLog ==
    [][\A p \in Procs :
          AtDocument(p) /\ run'[p].stage = "embed" =>
             LET doc == CurrentDoc(p)
                 wanted == /\ doc.chunked
                           /\ \/ ~doc.embedded
                              \/ ~\E k \in 1..Len(log) :
                                     log[k].ok /\ log[k].title = doc.title
             IN /\ wanted => run'[p].chunk = 1 /\ run'[p].idx = run[p].idx
                /\ ~wanted => run'[p].chunk = 0 /\ run'[p].idx = run[p].idx + 1]_vars

\* A run has gone on to embed a record whose embedded flag is true, none of
\* the log's records carrying its title.
C17_Witness ==
    \E p \in Procs :
       /\ run[p].stage = "embed"
       /\ run[p].chunk = 1
       /\ CurrentDoc(p).embedded
       /\ ~embeddings_exist_for(CurrentDoc(p).title, log)

\* The log holds a record made from the document: source_urls are unique.
RecordedFrom(doc, lines) ==
    \E k \in 1..Len(lines) : lines[k].ok /\ lines[k].source_url = doc.source_url

\* C18: at the head of the document loop, add_embeddings goes on to embed a
\* record that is chunked and flagged embedded while the log holds no record
\* made from it, whatever the titles of the other records of the registry.
C18_DivergenceReembedded ==
    [][\A p \in Procs :
          /\ AtDocument(p)
          /\ run'[p].stage = "embed"
          /\ UniqueUrls(run[p].meta.docs)
          /\ CurrentDoc(p).chunked
          /\ CurrentDoc(p).embedded
          /\ ~RecordedFrom(CurrentDoc(p), log)
          => run'[p].chunk = 1]_vars

\* The registry file holds the record at position i with embedded true.
PersistedEmbedded(i) ==
    /\ regFile = "ok"
    /\ i <= Len(registry.docs)
    /\ registry.docs[i].embedded

\* C19: while an embedding run is under way, and when it is killed, at most
\* one document has had records appended by the run while the registry file
\* does not hold its embedded flag as true.
C19_OneDocumentUnmarked ==
    /\ [](\A p \in Procs :
             run[p].stage = "embed" =>
                Cardinality({i \in run[p].appended : ~PersistedEmbedded(i)}) <= 1)
    /\ [][\A p \in Procs :
             run[p].stage = "embed" /\ IsIdle(p)' =>
                Cardinality({i \in run[p].appended \cup
                                      (IF log' # log THEN {run[p].idx} ELSE {}) :
                                ~PersistedEmbedded(i)'}) <= 1]_vars

\* The number of the log's records made from chunk k of the document.
TimesRecorded(doc, k) ==
    Cardinality({n \in 1..Len(log) :
                    /\ log[n].ok
                    /\ log[n].source_url = doc.source_url
                    /\ log[n].chunk_index = k})

\* Every chunk of the document's chunk file is in the log once.
RecordedOnce(doc) ==
    \A k \in 1..Len(chunkFile[doc.chunked_path].chunks) : TimesRecorded(doc, k) = 1

\* No run is under way and the registry holds every chunked document as
\* embedded: the last embedding run went through to its end.
EmbeddingComplete ==
    /\ \A p \in Procs : IsIdle(p)
    /\ regFile = "ok"
    /\ \E i \in 1..Len(registry.docs) : registry.docs[i].embedded
    /\ \A i \in 1..Len(registry.docs) :
          registry.docs[i].chunked => registry.docs[i].embedded

\* C20: once the embedding stage has run to its end after kills, every
\* embedded document other than those that were being embedded at a kill has
\* each of its chunks in the log exactly once, no chunk is in the log more
\* often than once plus once for each kill, and no step changes a record that
\* is in the log (so each keeps the id it first received).
C20_OtherDocumentsRecordedOnce ==
    /\ [](EmbeddingComplete =>
            LET docs == registry.docs
                embedded == {i \in 1..Len(docs) : docs[i].embedded} IN
            /\ \A i \in embedded :
                  docs[i].source_url \notin crashed => RecordedOnce(docs[i])
            /\ \A i \in embedded :
                  \A k \in 1..Len(chunkFile[docs[i].chunked_path].chunks) :
                     TimesRecorded(docs[i], k) <= 1 + faults)
    /\ [][\A n \in 1..Len(log) :
             log[n].ok => Len(log') >= n /\ log'[n] = log[n]]_vars

\* After one kill the stage has run to its end: one document has a chunk in
\* the log twice, the other has each of its chunks once.
C20_Witness ==
    /\ EmbeddingComplete
    /\ faults = 1
    /\ Cardinality(crashed) = 1
    /\ Len(registry.docs) = 2
    /\ \E i, j \in 1..2 :
          /\ i # j
          /\ registry.docs[i].embedded
          /\ registry.docs[j].embedded
          /\ TimesRecorded(registry.docs[i], 1) = 2
          /\ RecordedOnce(registry.docs[j])

\* C21: whatever happens to an upload pass, the log on disk is left as it was
\* or becomes the whole list of records the pass rewrites it with.
C21_RewriteIsAtomic ==
    [][\A p \in Procs :
          InUpload(p) => log' = log \/ log' = run[p].records]_vars

\* C22: the registry file on disk is a complete registry that json.load
\* accepts, whatever stage was killed at whatever point.
C22_RegistryAlwaysParses == regFile = "ok"

\* The stages that read the registry first and return or raise when it
\* cannot be read.
RegistryStages == Sources \cup {"extract", "embed"}

\* C23: a run of extraction, of a cleaner or of add_embeddings over an
\* unreadable registry, and an upload pass started while MongoDB cannot be
\* reached, change no file, no registry field, no log line and neither remote
\* store; an upload that cannot reach Qdrant at start-up does not get as far
\* as the pass.
C23_SystemicFaultChangesNothing ==
    [][\A p \in Procs :
          /\ (/\ regFile # "ok"
              /\ run[p].stage \in RegistryStages \/ run'[p].stage \in RegistryStages)
                => UNCHANGED <<registry, regFile, files, log, logOpen, remote>>
          /\ (InUpload(p) /\ ~run[p].mongo_up)
                => UNCHANGED <<registry, regFile, files, log, logOpen, remote>>]_vars

\* The run of extraction is at a file that gives no text.
AtFailingFile(p) ==
    /\ run[p].stage = "extract"
    /\ run[p].work # <<>>
    /\ ~process_file(Head(run[p].work).path)

\* C24: a file that gives no text leaves the text directory as it was and the
\* loop goes on with the files after it; when the run ends, the record of
\* every selected document without text is as it was and every selected
\* document with text is recorded extracted; and while the registry file is
\* readable every document whose raw file gives no text has no text file and
\* is one of those an extraction run selects.
C24_FailedExtractionRetried ==
    /\ [][\A p \in Procs :
             /\ AtFailingFile(p) /\ run'[p].stage = "extract"
                   => /\ textFile' = textFile
                      /\ run'[p].work = Tail(run[p].work)
                      /\ run'[p].done = run[p].done
             /\ (/\ run[p].stage = "extract"
                 /\ run[p].work = <<>>
                 /\ IsIdle(p)'
                 /\ faults' = faults
                 /\ regFile = "ok")
                   => \A i \in run[p].selected :
                         IF process_file(registry.docs[i].raw_path)
                         THEN /\ registry'.docs[i].text_extracted
                              /\ textFile[registry.docs[i].raw_path] = "full"
                         ELSE registry'.docs[i] = registry.docs[i]]_vars
    /\ [](\A i \in 1..Len(registry.docs) :
             regFile = "ok" /\ ~process_file(registry.docs[i].raw_path) =>
                /\ textFile[registry.docs[i].raw_path] = "absent"
                /\ ~registry.docs[i].text_extracted
                /\ i \in {files_to_process(registry.docs)[k] :
                            k \in 1..Len(files_to_process(registry.docs))})

\* A run selected both documents, the first gave no text and the second was
\* extracted after it; the run is about to update the registry.
C24_Witness ==
    \E p \in Procs :
       /\ run[p].stage = "extract"
       /\ run[p].work = <<>>
       /\ run[p].selected = {1, 2}
       /\ ~process_file(registry.docs[1].raw_path)
       /\ process_file(registry.docs[2].raw_path)
       /\ textFile[registry.docs[2].raw_path] = "full"
       /\ Len(run[p].done) = 1


\* The record is one the embedding stage can embed: it is chunked, its chunk
\* file is on disk and every chunk of it has a text field.
Embeddable(doc) ==
    /\ doc.chunked
    /\ doc.chunked_path # NoPath
    /\ chunkFile[doc.chunked_path].kind # "absent"
    /\ \A k \in 1..Len(chunkFile[doc.chunked_path].chunks) :
          chunkFile[doc.chunked_path].chunks[k]

\* C25: when a cleaning or an embedding run ends without having been killed,
\* every document it selected that has no error of its own has been processed
\* and is recorded in the registry: a cleaner has recorded every selected
\* document whose text file is in its directory, and the embedding stage has
\* marked every chunked document whose chunk file is complete, whatever is
\* wrong with the other documents of the run.
C25_ErrorsStayWithTheirDocument ==
    [][\A p \in Procs :
          /\ (/\ run[p].stage \in Sources
              /\ IsIdle(p)'
              /\ faults' = faults
              /\ regFile = "ok")
             => \A i \in run[p].selected :
                   LET doc == registry.docs[i] IN
                   (/\ textFile[doc.text_path] # "absent"
                    /\ rawDir[doc.text_path] = run[p].stage)
                   => \E j \in 1..Len(registry'.docs) :
                         /\ registry'.docs[j].source_url = doc.source_url
                         /\ registry'.docs[j].text_cleaned
          /\ (/\ run[p].stage = "embed"
              /\ IsIdle(p)'
              /\ faults' = faults)
             => \A i \in 1..Len(run[p].meta.docs) :
                   Embeddable(run[p].meta.docs[i])
                   => /\ i <= Len(registry'.docs)
                      /\ registry'.docs[i].embedded]_vars


\* No record of a readable registry has a stage flag on while the artifact of
\* that stage is on disk cut short.
NoPartialRecordedComplete ==
    regFile = "ok" =>
       \A i \in 1..Len(registry.docs) :
          LET doc == registry.docs[i] IN
          /\ (doc.text_extracted /\ doc.text_path # NoPath)
                => textFile[doc.text_path] # "partial"
          /\ (doc.text_cleaned /\ doc.cleaned_path # NoPath)
                => cleanedFile[doc.cleaned_path] # "partial"

\* The positions a run of the stage started now would select.
SelectedNow(stage) ==
    IF regFile # "ok" THEN {}
    ELSE LET sel == IF stage = "extract"
                    THEN files_to_process(registry.docs)
                    ELSE files_to_clean(registry.docs, stage) IN
         {sel[k] : k \in 1..Len(sel)}

\* C26: at every point, kills of extraction and cleaning runs included, no
\* record has its stage flag on while the artifact of that stage is cut
\* short; and when an extraction or a cleaning run is killed, every document
\* the run had selected (none of which the killed run has recorded) is
\* selected by a run of the same stage started after the kill.
C26_KilledRunIsRedone ==
    /\ []NoPartialRecordedComplete
    /\ [][\A p \in Procs, stage \in Sources \cup {"extract"} :
             (/\ run[p].stage = stage
              /\ IsIdle(p)'
              /\ faults' = faults + 1)
             => run[p].selected \subseteq SelectedNow(stage)']_vars


\* The place of a status value in the order of the stages.
StageRank(status) ==
    CASE status = "text_extracted" -> 1
      [] status = "text_cleaned" -> 2
      [] status = "chunked" -> 3
      [] status = "embedded" -> 4
      [] OTHER -> 0

\* The flag of the stage at place n of the order.
StageFlag(doc, n) ==
    CASE n = 1 -> doc.text_extracted
      [] n = 2 -> doc.text_cleaned
      [] n = 3 -> doc.chunked
      [] n = 4 -> doc.embedded
      [] OTHER -> FALSE

\* The place of the furthest stage whose flag is on; 0 when none is.
FurthestStage(doc) ==
    IF \E n \in 1..4 : StageFlag(doc, n)
    THEN CHOOSE n \in 1..4 :
            StageFlag(doc, n) /\ \A m \in (n + 1)..4 : ~StageFlag(doc, m)
    ELSE 0

\* C27: in every registry the scripts leave on disk, the status of each
\* record names the furthest stage whose flag is on, and so never a stage
\* whose flag is off; and no step sets the status of a record to an earlier
\* stage while the flag of a later stage is on.
C27_StatusIsFurthestStage ==
    /\ [](regFile = "ok" =>
            \A i \in 1..Len(registry.docs) :
               LET doc == registry.docs[i] IN
               /\ StageRank(doc.status) = FurthestStage(doc)
               /\ StageRank(doc.status) > 0 => StageFlag(doc, StageRank(doc.status)))
    /\ [][Len(registry'.docs) = Len(registry.docs) =>
             \A i \in 1..Len(registry.docs) :
                StageRank(registry'.docs[i].status) < StageRank(registry.docs[i].status)
                => \A n \in (StageRank(registry'.docs[i].status) + 1)..4 :
                      ~StageFlag(registry'.docs[i], n)]_vars


\* A step of update_chunk_status: no run is under way, and the registry
\* becomes what main computes from it, or main raises and nothing is saved.
ChunkStatusStep ==
    /\ \A p \in Procs : IsIdle(p) /\ IsIdle(p)'
    /\ ~ChunkStatusRaises
    /\ registry' = ChunkStatusUpdated(registry)
    /\ registry' # registry

\* C28: every step of a cleaning run leaves the text files as they are, a
\* run of update_chunk_status leaves the cleaned files and the chunk files as
\* they are, every step of an embedding run leaves the chunk files as they
\* are, and every step of an upload pass leaves the registry as it is.
C28_InputsAreLeftAlone ==
    [][/\ \A p \in Procs :
             (run[p].stage \in Sources \/ run'[p].stage \in Sources)
                => textFile' = textFile
       /\ ChunkStatusStep => UNCHANGED <<cleanedFile, chunkFile>>
       /\ \A p \in Procs :
             (run[p].stage = "embed" \/ run'[p].stage = "embed")
                => chunkFile' = chunkFile
       /\ \A p \in Procs :
             (InUpload(p) \/ InUpload(p)')
                => UNCHANGED <<registry, regFile>>]_vars

\* A cleaner has written a cleaned file, update_chunk_status has marked a
\* document chunked, add_embeddings has embedded it and an upload pass has
\* stored a record of it: every consuming stage has acted.
C28_Witness ==
    /\ \A p \in Procs : IsIdle(p)
    /\ \E i \in 1..Len(registry.docs) :
          /\ registry.docs[i].text_cleaned
          /\ cleanedFile[registry.docs[i].cleaned_path] = "full"
          /\ registry.docs[i].chunked
          /\ registry.docs[i].embedded
          /\ \E n \in 1..Len(log) :
                /\ log[n].ok
                /\ log[n].source_url = registry.docs[i].source_url
                /\ log[n].upload
                /\ log[n].id \in remote.qdrant


\* No two parsable lines of the log carry the same id.
IdsDistinct ==
    \A m, n \in 1..Len(log) :
       (m # n /\ log[m].ok /\ log[n].ok) => log[m].id # log[n].id

CountChunked(docs) == Cardinality({i \in 1..Len(docs) : docs[i].chunked})

\* C30: the registry a run of update_chunk_status saves, whether or not the
\* registry it loaded had a total_chunked key, has total_chunked equal to the
\* number of its records whose chunked flag is on.
C30_TotalChunkedIsCounted ==
    [][ChunkStatusStep =>
          registry'.total_chunked = CountChunked(registry'.docs)]_vars


\* The entry of cleaned_documents is of a file whose cleaning
\* _validate_cleaning rejected.
Rejected(stage, info) ==
    validate_cleaning(stage, info.original_text, info.text) # Valid

\* C31: when _validate_cleaning rejects the cleaning of a file, clean_file
\* still succeeds: the cleaned file is written with the original text, the
\* entry of cleaned_documents has reduction 0 and equal sizes, and the loop
\* goes on with the rest of the work; and when the run ends the document is
\* recorded with its cleaned_path and text_cleaned on, and a cleaning run
\* started then does not select it.
C31_RejectionIsSuccess ==
    [][\A p \in Procs, stage \in Sources :
          run[p].stage = stage =>
             /\ (/\ run'[p].stage = stage
                 /\ Len(run'[p].done) = Len(run[p].done) + 1
                 /\ Rejected(stage, run'[p].done[Len(run'[p].done)]))
                => LET info == run'[p].done[Len(run'[p].done)] IN
                   /\ info.written = info.original_text
                   /\ info.cleaned_size = info.original_size
                   /\ info.reduction_percent = 0
                   /\ cleanedFile'[info.path] = "full"
                   /\ run'[p].work = Tail(run[p].work)
             /\ (IsIdle(p)' /\ run[p].work = <<>>)
                => \A k \in 1..Len(run[p].done) :
                      Rejected(stage, run[p].done[k])
                      => \E i \in 1..Len(registry'.docs) :
                            /\ registry'.docs[i].source_url = run[p].done[k].source_url
                            /\ registry'.docs[i].text_cleaned
                            /\ registry'.docs[i].cleaned_path = run[p].done[k].path
                            /\ i \notin SelectedNow(stage)']_vars

\* A run in which the steps changed the text of the first file, the
\* validation rejected the change, the original text was written, and the
\* second file has been cleaned after it.
C31_Witness ==
    \E p \in Procs :
       /\ run[p].stage \in Sources
       /\ Len(run[p].done) = 2
       /\ Rejected(run[p].stage, run[p].done[1])
       /\ run[p].done[1].text # run[p].done[1].original_text
       /\ run[p].done[1].written = run[p].done[1].original_text
       /\ cleanedFile[run[p].done[1].path] = "full"
       /\ cleanedFile[run[p].done[2].path] = "full"


\* A run of update_chunk_status that saved the registry.
ChunkStatusRun ==
    /\ \A p \in Procs : IsIdle(p) /\ IsIdle(p)'
    /\ ~ChunkStatusRaises
    /\ registry' = ChunkStatusUpdated(registry)

\* The file at the place of the chunk file of the cleaned file is there, is
\* JSON and has a chunks list that is not empty.
HasChunks(cleaned_path) ==
    /\ chunkFile[cleaned_path].kind \notin {"absent", "placeholder", "garbage"}
    /\ chunkFile[cleaned_path].chunks # <<>>

\* C32: in the registry a run of update_chunk_status saves, every record with
\* a cleaned_path has chunked on exactly when its chunk file is there, is
\* JSON and has a chunks list that is not empty; and in no state is a
\* document embedded, or marked chunked by such a run, while the {} of
\* create_empty_jsons is at the place of its chunk file.
C32_ChunkedIffChunks ==
    /\ [](regFile = "ok" =>
            \A i \in 1..Len(registry.docs) :
               LET doc == registry.docs[i] IN
               (/\ doc.cleaned_path # NoPath
                /\ chunkFile[doc.cleaned_path].kind = "placeholder")
               => ~doc.embedded)
    /\ [][ChunkStatusRun =>
             \A i \in 1..Len(registry'.docs) :
                LET doc == registry'.docs[i] IN
                doc.cleaned_path # NoPath =>
                   /\ doc.chunked <=> HasChunks(doc.cleaned_path)
                   /\ chunkFile[doc.cleaned_path].kind = "placeholder"
                         => ~doc.chunked]_vars

\* update_chunk_status has run: the document with the {} of
\* create_empty_jsons is not chunked, the one with chunks is.
C32_Witness ==
    /\ registry.total_chunked # Absent
    /\ \A p \in Procs : IsIdle(p)
    /\ \E i, j \in 1..Len(registry.docs) :
          /\ chunkFile[registry.docs[i].cleaned_path].kind = "placeholder"
          /\ ~registry.docs[i].chunked
          /\ HasChunks(registry.docs[j].cleaned_path)
          /\ registry.docs[j].chunked


\* The records of the log file: its lines that are JSON, in file order.
LogRecords(lines) == SelectSeq(lines, LAMBDA l : l.ok)

\* Record b is record a, with the upload flag as it was or turned on.
SameButFlagged(a, b) ==
    /\ b = [a EXCEPT !.upload = b.upload]
    /\ a.upload => b.upload

\* C33: the rewrite at the end of an upload pass leaves in the log the
\* records it held, as many and in the same order, each with every field as
\* it was except that an upload flag may have gone from false to true.
C33_RewriteOnlyFlags ==
    [][\A p \in Procs :
          (InUpload(p) /\ IsIdle(p)' /\ faults' = faults) =>
             LET before == LogRecords(log)
                 after == LogRecords(log') IN
             /\ Len(after) = Len(before)
             /\ \A k \in 1..Len(before) : SameButFlagged(before[k], after[k])]_vars

\* A pass has ended and has rewritten the log: one record is flagged, another
\* one, whose upsert failed, is not.
C33_Witness ==
    /\ \A p \in Procs : IsIdle(p)
    /\ \E m, n \in 1..Len(log) :
          /\ log[m].ok
          /\ log[n].ok
          /\ log[m].upload
          /\ ~log[n].upload


\* C34: in every state, whatever failed in the upload passes so far, every
\* record of the log with upload true has its id among the points of the
\* vector index and among the documents of the metadata store.
C34_FlaggedIsInBothStores ==
    \A n \in 1..Len(log) :
       (log[n].ok /\ log[n].upload) =>
          /\ log[n].id \in remote.qdrant
          /\ log[n].id \in remote.mongo


\* Every chunk of the document's chunk file has a record in the log.
AllChunksRecorded(doc) ==
    /\ doc.chunked_path # NoPath
    /\ chunkFile[doc.chunked_path].kind = "chunks"
    /\ \A k \in 1..Len(chunkFile[doc.chunked_path].chunks) :
          TimesRecorded(doc, k) >= 1

\* C35: when the runs of two operators, started side by side, have all
\* ended, the registry on disk has text_cleaned on for every document a
\* cleaner has written the cleaned file of, and embedded on for every
\* document add_embeddings has recorded every chunk of.
C35_NoUpdateLost ==
    (\A p \in Procs : IsIdle(p)) =>
       \A i \in 1..Len(registry.docs) :
          LET doc == registry.docs[i] IN
          /\ cleanedFile[doc.text_path] = "full" => doc.text_cleaned
          /\ AllChunksRecorded(doc) => doc.embedded


\* Record new is what a step made of record old.
SameRecord(old, new) ==
    old.source_url = new.source_url /\ old.raw_path = new.raw_path

\* C36: no step turns off text_extracted, text_cleaned or embedded of a
\* record; a step that turns off chunked is a run of update_chunk_status,
\* and the record has a cleaned_path and no valid chunk file.
C36_FlagsStayOn ==
    [][\A i \in 1..Len(registry.docs), j \in 1..Len(registry'.docs) :
          LET old == registry.docs[i]
              new == registry'.docs[j] IN
          SameRecord(old, new) =>
             /\ old.text_extracted => new.text_extracted
             /\ old.text_cleaned => new.text_cleaned
             /\ old.embedded => new.embedded
             /\ (old.chunked /\ ~new.chunked) =>
                   /\ ChunkStatusRun
                   /\ old.cleaned_path # NoPath
                   /\ ~HasChunks(old.cleaned_path)]_vars

\* update_chunk_status has turned off chunked of an embedded document whose
\* chunk file is gone; its other flags are on.
C36_Witness ==
    \E i \in 1..Len(registry.docs) :
       LET doc == registry.docs[i] IN
       /\ doc.text_extracted
       /\ doc.text_cleaned
       /\ doc.embedded
       /\ ~doc.chunked
       /\ doc.chunked_path # NoPath
       /\ chunkFile[doc.chunked_path].kind = "absent"


\* The first record of docs, in registry order, with the source_url url.
IsFirstWith(docs, j, url) ==
    /\ docs[j].source_url = url
    /\ \A i \in 1..(j - 1) : docs[i].source_url # url

\* The status _update_metadata of the stage assigns.
StatusOf(stage) == IF stage = "extract" THEN "text_extracted" ELSE "text_cleaned"

\* Record j comes after a record with the same source_url.
IsLaterOfShared(docs, j) ==
    \E i \in 1..(j - 1) : docs[i].source_url = docs[j].source_url

\* C37: when _update_metadata of the extractor or of a cleaner saves the
\* registry, every record it changes is the first record, in registry order,
\* with the source_url of a processed document, and for every processed
\* document that first record carries the stage's status afterwards; and in
\* every state a record that comes after a record with the same source_url
\* has no text_path, no cleaned_path and no completion flag on.
C37_FirstMatchOnly ==
    /\ [](\A j \in 1..Len(registry.docs) :
            IsLaterOfShared(registry.docs, j) =>
               LET doc == registry.docs[j] IN
               /\ doc.text_path = NoPath /\ doc.cleaned_path = NoPath
               /\ doc.status = "downloaded"
               /\ ~doc.text_extracted /\ ~doc.text_cleaned
               /\ ~doc.chunked /\ ~doc.embedded)
    /\ [][\A p \in Procs :
            (/\ run[p].stage \in Sources \cup {"extract"}
             /\ run[p].work = <<>>
             /\ run[p].done # <<>>
             /\ run'[p] = Idle) =>
               LET docs == registry.docs
                   done == run[p].done IN
               /\ Len(registry'.docs) = Len(docs)
               /\ \A j \in 1..Len(docs) :
                     registry'.docs[j] # docs[j] =>
                        \E k \in 1..Len(done) :
                           IsFirstWith(docs, j, done[k].source_url)
               /\ \A k \in 1..Len(done) :
                     \E j \in 1..Len(docs) :
                        /\ IsFirstWith(docs, j, done[k].source_url)
                        /\ registry'.docs[j].status = StatusOf(run[p].stage)]_vars

\* Two records share a source_url and have different raw files; the text of
\* the later one was extracted and cleaned, and the earlier record carries
\* its paths.
C37_Witness ==
    \E i, j \in 1..Len(registry.docs) :
       LET first == registry.docs[i]
           later == registry.docs[j] IN
       /\ i < j
       /\ first.source_url = later.source_url
       /\ first.raw_path # later.raw_path
       /\ textFile[later.raw_path] = "full"
       /\ cleanedFile[later.raw_path] = "full"
       /\ first.text_path = later.raw_path
       /\ first.cleaned_path = later.raw_path
       /\ first.text_cleaned
       /\ later.text_path = NoPath


\* C38: a run of create_empty_jsons leaves every chunk file that exists as
\* it is, whatever it holds, writes {} at the place of every cleaned file
\* that has no chunk file, and touches nothing else; a second run straight
\* after the first changes no file.
C38_ExistingFilesKept ==
    [][prev' = "create_empty_jsons" =>
          /\ \A r \in Keys :
                chunkFile'[r] =
                   IF chunkFile[r].kind = "absent" /\ cleanedFile[r] # "absent"
                   THEN [kind |-> "placeholder", chunks |-> <<>>]
                   ELSE chunkFile[r]
          /\ UNCHANGED <<registry, regFile, raw, rawDir, textFile,
                         cleanedFile, log>>
          /\ prev = "create_empty_jsons" => UNCHANGED chunkFile]_vars

\* create_empty_jsons ran last, after the chunker: one document has its
\* chunks, the other the {} the script wrote.
C38_Witness ==
    /\ prev = "create_empty_jsons"
    /\ \E r, q \in Keys :
          /\ cleanedFile[r] = "full"
          /\ chunkFile[r].kind = "chunks"
          /\ chunkFile[r].chunks # <<>>
          /\ ~registry.docs[r].chunked
          /\ chunkFile[q].kind = "placeholder"


\* The positions of the records of docs whose raw_path no earlier record has.
FirstOfRawPath(docs) ==
    {i \in 1..Len(docs) :
        \A j \in 1..(i - 1) : docs[j].raw_path # docs[i].raw_path}

\* C39: a run of remove_duplicates_by_raw_path leaves in the registry the
\* records whose raw_path no earlier record has, unchanged and in their
\* order, drops every other record, and stores their number as
\* total_documents; a run straight after another changes nothing.
C39_FirstOfEachRawPath ==
    [][prev' = "remove_duplicates" =>
          LET old == registry.docs
              new == registry'.docs
              kept == FirstOfRawPath(old) IN
          /\ Len(new) = Cardinality(kept)
          /\ \A i \in kept :
                new[Cardinality({j \in kept : j <= i})] = old[i]
          /\ registry'.total_documents = Cardinality(kept)
          /\ prev = "remove_duplicates" => registry' = registry]_vars

\* remove_duplicates ran last and dropped the second of three records: the
\* first and the third are left, in that order, the first one extracted.
C39_Witness ==
    /\ prev = "remove_duplicates"
    /\ Len(registry.docs) = 2
    /\ registry.total_documents = 2
    /\ registry.docs[1].title = 1
    /\ registry.docs[1].text_extracted
    /\ registry.docs[2].title = 3

====
